---- MODULE Spec2Model ----
(***************************************************************************)
(* Freeact: a DFS virtual-DOM renderer with hooks (class Freeact).         *)
(* The module is an executable model of the class: every method is an      *)
(* operator from a world (the object's fields plus the DOM) to a world,    *)
(* and the public calls render() and the setState closures are actions.    *)
(***************************************************************************)
EXTENDS Integers, Sequences, FiniteSets, TLC

VARIABLES
  virtualNodes,              \* heap of VirtualNode objects, index = identity
  hostNodes,                 \* heap of DOM nodes, index = identity
  currentRenderingComponent, \* Freeact.currentRenderingComponent (None = null)
  hookIndexInEachComponent,  \* Freeact.hookIndexInEachComponent
  pendingEffectsQueue,       \* Freeact.pendingEffectsQueue
  rootNodes,                 \* Freeact.rootNodes: container -> VirtualNode
  eventListeners,            \* Freeact.eventListeners: element -> listeners by event name
  trace,                     \* what the public calls did so far, in order
  thrown,                    \* the last public call ended by an exception
  fresh,                     \* source of object identities of callback results
  app,                       \* the application under test
  input,                     \* the arguments of the call under test
  steps                      \* number of public calls made

vars == <<virtualNodes, hostNodes, currentRenderingComponent,
          hookIndexInEachComponent, pendingEffectsQueue, rootNodes,
          eventListeners, trace, thrown, fresh, app, input, steps>>

(***************************************************************************)
(* Bounds of the exploration.                                              *)
(***************************************************************************)
MaxSteps == 3
MaxCount == 3
MaxArgs == 3

(***************************************************************************)
(* Program constants and encodings.                                        *)
(***************************************************************************)
TEXT_ELEMENT == "TEXT_ELEMENT"

None == 0      \* null / undefined reference
NoKey == 0 - 1 \* props.key === null

NumContainers == 2
Containers == 1..NumContainers

\* String(n) for the numbers the applications display.
Digits == <<"0", "1", "2", "3", "4", "5", "6", "7", "8", "9">>
ToStr(n) == IF n >= 0 /\ n <= 9 THEN Digits[n + 1] ELSE "big"

(***************************************************************************)
(* Trace events: one record shape for all.                                 *)
(***************************************************************************)
Ev(op, a, b, c, d) == [op |-> op, a |-> a, b |-> b, c |-> c, d |-> d]
Log4(w, op, a, b, c, d) == [w EXCEPT !.trace = Append(@, Ev(op, a, b, c, d))]
Log(w, op, a, b, c) == Log4(w, op, a, b, c, 0)
\* An error that is noted and does not leave the method.
Throw_swallowed(w, what) == Log(w, "throw", 0, 0, 0)

Throw(w, what) == [Log(w, "throw", 0, 0, 0) EXCEPT !.err = TRUE]

\* Sequencing: K applied to the world a step produced.
Bind(w, K(_)) == K(w)

(***************************************************************************)
(* Host binding layer: the DOM operations the class calls.                 *)
(***************************************************************************)
IndexOf(s, x) == CHOOSE i \in 1..Len(s) : s[i] = x
Without(s, x) == SelectSeq(s, LAMBDA y : y # x)
InsertAt(s, i, x) == SubSeq(s, 1, i - 1) \o <<x>> \o SubSeq(s, i, Len(s))

Detach(dom, n) ==
  IF dom[n].parent = None THEN dom
  ELSE [dom EXCEPT ![dom[n].parent].kids = Without(@, n), ![n].parent = None]

nextSibling(dom, n) ==
  IF dom[n].parent = None THEN None
  ELSE LET ks == dom[dom[n].parent].kids
           i == IndexOf(ks, n)
       IN IF i < Len(ks) THEN ks[i + 1] ELSE None

IsAttached(dom, n) ==
  LET RECURSIVE up(_)
      up(m) == IF m \in Containers THEN TRUE
               ELSE IF dom[m].parent = None THEN FALSE
               ELSE up(dom[m].parent)
  IN n # None /\ up(n)

createHostNode(w, kind, tag, text) ==
  LET n == Len(w.dom) + 1
      node == [kind |-> kind, tag |-> tag, text |-> text, parent |-> None, kids |-> <<>>,
               attributes |-> <<>>, style |-> <<>>, listeners |-> <<>>]
  IN [Log(w, "create", n, 0, 0) EXCEPT !.dom = Append(@, node), !.ret = n]

appendChild(w, p, n) ==
  IF w.err THEN w
  ELSE IF p = None THEN w
  ELSE IF n = None THEN Throw(w, "TypeError")
  ELSE LET d1 == Detach(w.dom, n)
           d2 == [d1 EXCEPT ![p].kids = Append(@, n), ![n].parent = p]
       IN [Log(w, "append", p, n, 0) EXCEPT !.dom = d2]

insertBefore(w, p, n, ref) ==
  IF w.err THEN w
  ELSE IF w.dom[ref].parent # p THEN Throw(w, "NotFoundError")
  ELSE IF n = ref THEN Log(w, "insert", p, n, ref)
  ELSE LET d1 == Detach(w.dom, n)
           i == IndexOf(d1[p].kids, ref)
           d2 == [d1 EXCEPT ![p].kids = InsertAt(@, i, n), ![n].parent = p]
       IN [Log(w, "insert", p, n, ref) EXCEPT !.dom = d2]

removeChild(w, p, n) ==
  IF w.err THEN w
  ELSE IF n = None THEN Throw(w, "TypeError")
  ELSE IF w.dom[n].parent # p THEN Throw(w, "NotFoundError")
  ELSE [Log(w, "remove", p, n, 0) EXCEPT !.dom = Detach(w.dom, n)]

replaceChild(w, p, new, old) ==
  IF w.err THEN w
  ELSE IF old = None THEN Throw(w, "TypeError")
  ELSE IF w.dom[old].parent # p THEN Throw(w, "NotFoundError")
  ELSE LET d1 == Detach(w.dom, new)
           i == IndexOf(d1[p].kids, old)
           d2 == [d1 EXCEPT ![p].kids = [@ EXCEPT ![i] = new],
                            ![new].parent = p, ![old].parent = None]
       IN [Log(w, "replace", p, new, old) EXCEPT !.dom = d2]

setTextContent(w, n, text) ==
  IF w.err THEN w
  ELSE IF n = None THEN Throw(w, "TypeError")
  ELSE [Log(w, "text", n, 0, 0) EXCEPT !.dom[n].text = text]

(***************************************************************************)
(* VirtualNode objects.  props is split into key, value, children and      *)
(* attrs (every other prop).  children holds the elements of the array     *)
(* props.children: a node, or a nested array of nodes (a mapped list).     *)
(***************************************************************************)
Item(arr, ids) == [arr |-> arr, ids |-> ids]

NewVirtualNode(type, key, value, children, attrs) ==
  [type |-> type, key |-> key, value |-> value, children |-> children,
   attrs |-> attrs, realNode |-> None, child |-> None, hooks |-> <<>>,
   parentRealNode |-> None, parentVirtualNode |-> None, parentNode |-> None]

Alloc(w, node) == [w EXCEPT !.vn = Append(@, node), !.ret = Len(w.vn) + 1]

\* Component functions of the applications (typeof type === 'function').
Components ==
  {"Counter", "Toggle", "Inner", "App", "Wrapper", "Spread", "Rows", "List",
   "Form", "Page", "Memo", "Prim", "Fx", "Holder", "Gate", "Opener",
   "Faulty", "Handler"}

isFunctionComponent(vnode) == vnode.type \in Components
isTextElement(vnode) == vnode.type = TEXT_ELEMENT

\* props.children.flat(): one level of nested arrays is spliced in.
RECURSIVE flat(_)
flat(items) ==
  IF items = <<>> THEN <<>> ELSE Head(items).ids \o flat(Tail(items))

createTextElement(w, text) ==
  Alloc(w, NewVirtualNode(TEXT_ELEMENT, NoKey, text, <<>>, <<>>))

(***************************************************************************)
(* createVirtualElement.  An argument of the call is one of                *)
(*   node (a VirtualNode), arr (an array of VirtualNodes), str, num, bool, *)
(*   null, undef.                                                          *)
(***************************************************************************)
Arg(k, ids, s, n, b) == [k |-> k, ids |-> ids, s |-> s, n |-> n, b |-> b]
ArgNode(id) == Arg("node", <<id>>, "", 0, FALSE)
ArgArr(ids) == Arg("arr", ids, "", 0, FALSE)
ArgStr(s) == Arg("str", <<>>, s, 0, FALSE)
ArgNum(n) == Arg("num", <<>>, "", n, FALSE)
ArgBool(b) == Arg("bool", <<>>, "", 0, b)
ArgNull == Arg("null", <<>>, "", 0, FALSE)
ArgUndef == Arg("undef", <<>>, "", 0, FALSE)

\* String(child) of a primitive child.
StringOf(a) ==
  CASE a.k = "str" -> a.s
    [] a.k = "num" -> ToStr(a.n)
    [] a.k = "bool" -> IF a.b THEN "true" ELSE "false"
    [] a.k = "null" -> "null"
    [] OTHER -> "undefined"

\* A filter that keeps the truthy children only.
KeptChild_truthy(a) ==
  a.k \in {"node", "arr"} \/ (a.k = "str" /\ a.s # "") \/ (a.k = "num" /\ a.n # 0)

KeptChild(a) == a.k # "null" /\ a.k # "undef" /\ a.k # "bool"

RECURSIVE mapChildren(_, _, _)
mapChildren(w, args, acc) ==
  IF args = <<>> THEN [w EXCEPT !.ret = acc]
  ELSE LET a == Head(args)
       IN IF a.k = "node" \/ a.k = "arr"
          THEN mapChildren(w, Tail(args), Append(acc, Item(a.k = "arr", a.ids)))
          ELSE LET w1 == createTextElement(w, StringOf(a))
               IN mapChildren(w1, Tail(args), Append(acc, Item(FALSE, <<w1.ret>>)))

\* props?.key ?? null, props being null, an object without key, or an
\* object with key null or a number.
KeyOrNull(props) == IF props.k = "key" THEN props.key ELSE NoKey

createVirtualElement(w, type, key, attrs, args) ==
  LET w1 == mapChildren(w, SelectSeq(args, KeptChild), <<>>)
  IN Alloc(w1, NewVirtualNode(type, key, "", w1.ret, attrs))

(***************************************************************************)
(* JSX expressions of the applications: a description is evaluated         *)
(* children first, as the nested createVirtualElement calls are.           *)
(*   El(type, key, kids)   an element; kids are descriptions of children   *)
(*   [t |-> "el", d]       child element                                   *)
(*   [t |-> "map", ds]     child array of elements (items.map(...))        *)
(*   [t |-> "val", a]      child value already evaluated                   *)
(***************************************************************************)
El(type, key, kids) == [type |-> type, key |-> key, attrs |-> <<>>, kids |-> kids]
ElP(type, attrs, kids) == [type |-> type, key |-> NoKey, attrs |-> attrs, kids |-> kids]
KEl(d) == [t |-> "el", d |-> d]
KMap(ds) == [t |-> "map", ds |-> ds]
KVal(a) == [t |-> "val", a |-> a]

RECURSIVE Build(_, _), BuildKids(_, _, _), BuildAll(_, _, _)
Build(w, d) ==
  LET w1 == BuildKids(w, d.kids, <<>>)
  IN createVirtualElement(w1, d.type, d.key, d.attrs, w1.ret)

BuildKids(w, kids, acc) ==
  IF kids = <<>> THEN [w EXCEPT !.ret = acc]
  ELSE LET k == Head(kids)
       IN CASE k.t = "el" ->
                 LET w1 == Build(w, k.d)
                 IN BuildKids(w1, Tail(kids), Append(acc, ArgNode(w1.ret)))
            [] k.t = "map" ->
                 LET w1 == BuildAll(w, k.ds, <<>>)
                 IN BuildKids(w1, Tail(kids), Append(acc, ArgArr(w1.ret)))
            [] OTHER -> BuildKids(w, Tail(kids), Append(acc, k.a))

BuildAll(w, ds, acc) ==
  IF ds = <<>> THEN [w EXCEPT !.ret = acc]
  ELSE LET w1 == Build(w, Head(ds))
       IN BuildAll(w1, Tail(ds), Append(acc, w1.ret))

(***************************************************************************)
(* Hook records of a component: hooks[i] is a state value, an Effect       *)
(* {callback, deps, cleanup} or a Memo {value, deps}.  A callback and a    *)
(* cleanup are function objects, named by the identity given at creation;  *)
(* cleanup = None is undefined.                                            *)
(***************************************************************************)
Hook(k, v, hasDeps, deps, callback, cleanup) ==
  [k |-> k, v |-> v, hasDeps |-> hasDeps, deps |-> deps,
   callback |-> callback, cleanup |-> cleanup]

\* typeof hook === 'object' && Boolean(hook): Effect and Memo records.
IsObjectHook(h) == h.k = "effect" \/ h.k = "memo"

(***************************************************************************)
(* The hook calls a component function makes, in call order:               *)
(*   h        "state" | "effect" | "memo"                                  *)
(*   init     useState: the initial value; lazy: given as () => init       *)
(*   hasDeps  a deps array is passed; deps: indices of the earlier hook    *)
(*            results the array holds                                      *)
(*   cleanup  useEffect: the callback returns a cleanup function; with     *)
(*            init > 0 only while the state in slot 1 is below init, and   *)
(*            nothing otherwise                                            *)
(***************************************************************************)
HS(h, init, lazy, hasDeps, deps, cleanup) ==
  [h |-> h, init |-> init, lazy |-> lazy, hasDeps |-> hasDeps, deps |-> deps,
   cleanup |-> cleanup]

validateHookContext(w) == w.cur # None

\* areDepsEqual(prevDeps, nextDeps), Object.is on each pair
areDepsEqual(prevHas, prevDeps, nextHas, nextDeps) ==
  IF ~prevHas \/ ~nextHas \/ Len(prevDeps) # Len(nextDeps) THEN FALSE
  ELSE \A i \in 1..Len(prevDeps) : prevDeps[i] = nextDeps[i]

scheduleEffect(w, c, slot) ==
  [Log(w, "schedule", c, slot, 0) EXCEPT !.queue = Append(@, [c |-> c, slot |-> slot])]

useState(w, s) ==
  IF w.err THEN w
  ELSE IF ~validateHookContext(w) THEN Throw(w, "useState")
  ELSE LET c == w.cur
           i == w.hidx + 1
           first == Len(w.vn[c].hooks) <= w.hidx
           w1 == IF first /\ s.lazy THEN Log(w, "init", c, i, s.init) ELSE w
           w2 == IF first
                 THEN [w1 EXCEPT !.vn[c].hooks =
                         Append(@, Hook("state", s.init, FALSE, <<>>, None, None))]
                 ELSE w1
           state == w2.vn[c].hooks[i].v
       IN [Log(w2, "useState", c, i, state) EXCEPT !.hidx = @ + 1, !.ret = state]

\* A useEffect that leaves the slot index alone when the deps are unchanged.
useEffect_sameIndex(w, hasDeps, deps) ==
  IF w.err THEN w
  ELSE IF ~validateHookContext(w) THEN Throw(w, "useEffect")
  ELSE LET c == w.cur
           i == w.hidx + 1
           callback == w.fresh + 1
           w0 == [Log(w, "useEffect", c, i, 0) EXCEPT !.fresh = callback, !.ret = None]
       IN IF Len(w0.vn[c].hooks) <= w0.hidx
          THEN LET w1 == [w0 EXCEPT !.vn[c].hooks =
                            Append(@, Hook("effect", 0, hasDeps, deps, callback, None))]
               IN [scheduleEffect(w1, c, i) EXCEPT !.hidx = @ + 1]
          ELSE LET cur == w0.vn[c].hooks[i]
                   isDepsChanged == ~areDepsEqual(cur.hasDeps, cur.deps, hasDeps, deps)
                   w1 == IF isDepsChanged
                         THEN scheduleEffect(
                                [w0 EXCEPT !.vn[c].hooks[i].callback = callback,
                                           !.vn[c].hooks[i].hasDeps = hasDeps,
                                           !.vn[c].hooks[i].deps = deps], c, i)
                         ELSE w0
               IN IF isDepsChanged THEN [w1 EXCEPT !.hidx = @ + 1] ELSE w1

useEffect(w, hasDeps, deps) ==
  IF w.err THEN w
  ELSE IF ~validateHookContext(w) THEN Throw(w, "useEffect")
  ELSE LET c == w.cur
           i == w.hidx + 1
           callback == w.fresh + 1
           w0 == [Log(w, "useEffect", c, i, 0) EXCEPT !.fresh = callback, !.ret = None]
       IN IF Len(w0.vn[c].hooks) <= w0.hidx
          THEN LET w1 == [w0 EXCEPT !.vn[c].hooks =
                            Append(@, Hook("effect", 0, hasDeps, deps, callback, None))]
               IN [scheduleEffect(w1, c, i) EXCEPT !.hidx = @ + 1]
          ELSE LET cur == w0.vn[c].hooks[i]
                   isDepsChanged == ~areDepsEqual(cur.hasDeps, cur.deps, hasDeps, deps)
                   w1 == IF isDepsChanged
                         THEN scheduleEffect(
                                [w0 EXCEPT !.vn[c].hooks[i].callback = callback,
                                           !.vn[c].hooks[i].hasDeps = hasDeps,
                                           !.vn[c].hooks[i].deps = deps], c, i)
                         ELSE w0
               IN [w1 EXCEPT !.hidx = @ + 1]

\* The memo callbacks of the applications return a new object on each call.
memoCallback(w, c, i) ==
  LET value == w.fresh + 1
  IN [Log(w, "memo", c, i, value) EXCEPT !.fresh = value, !.ret = value]

useMemo(w, hasDeps, deps) ==
  IF w.err THEN w
  ELSE IF ~validateHookContext(w) THEN Throw(w, "useMemo")
  ELSE LET c == w.cur
           i == w.hidx + 1
       IN IF Len(w.vn[c].hooks) <= w.hidx
          THEN LET w1 == memoCallback(w, c, i)
                   value == w1.ret
               IN [Log(w1, "useMemo", c, i, value) EXCEPT !.vn[c].hooks =
                      Append(@, Hook("memo", value, hasDeps, deps, None, None)),
                             !.hidx = @ + 1, !.ret = value]
          ELSE LET cur == w.vn[c].hooks[i]
                   isDepsChanged == ~areDepsEqual(cur.hasDeps, cur.deps, hasDeps, deps)
                   w1 == IF isDepsChanged
                         THEN LET w2 == memoCallback(w, c, i)
                              IN [w2 EXCEPT !.vn[c].hooks[i].v = w2.ret,
                                            !.vn[c].hooks[i].hasDeps = hasDeps,
                                            !.vn[c].hooks[i].deps = deps]
                         ELSE w
               IN [Log(w1, "useMemo", c, i, w1.vn[c].hooks[i].v) EXCEPT
                     !.hidx = @ + 1, !.ret = w1.vn[c].hooks[i].v]

\* useCallback(callback, deps), as useMemo(() => callback, deps): the slot
\* keeps the callback passed when the deps last changed.  The callback passed
\* is a new function object on each call.
useCallback(w, hasDeps, deps) ==
  IF w.err THEN w
  ELSE IF ~validateHookContext(w) THEN Throw(w, "useCallback")
  ELSE LET c == w.cur
           i == w.hidx + 1
           callback == w.fresh + 1
           w0 == [w EXCEPT !.fresh = callback]
       IN IF Len(w0.vn[c].hooks) <= w0.hidx
          THEN [Log(w0, "useCallback", c, i, callback) EXCEPT !.vn[c].hooks =
                   Append(@, Hook("memo", callback, hasDeps, deps, None, None)),
                          !.hidx = @ + 1, !.ret = callback]
          ELSE LET cur == w0.vn[c].hooks[i]
                   isDepsChanged == ~areDepsEqual(cur.hasDeps, cur.deps, hasDeps, deps)
                   w1 == IF isDepsChanged
                         THEN [w0 EXCEPT !.vn[c].hooks[i].v = callback,
                                         !.vn[c].hooks[i].hasDeps = hasDeps,
                                         !.vn[c].hooks[i].deps = deps]
                         ELSE w0
               IN [Log(w1, "useCallback", c, i, w1.vn[c].hooks[i].v) EXCEPT
                     !.hidx = @ + 1, !.ret = w1.vn[c].hooks[i].v]

(***************************************************************************)
(* The applications: the component functions the model renders.            *)
(***************************************************************************)
StateHook(init) == HS("state", init, FALSE, FALSE, <<>>, FALSE)
LazyStateHook(init) == HS("state", init, TRUE, FALSE, <<>>, FALSE)
EffectHook(deps) == HS("effect", 0, FALSE, TRUE, deps, TRUE)
MemoHook(deps) == HS("memo", 0, FALSE, TRUE, deps, FALSE)
CallbackHook(deps) == HS("callback", 0, FALSE, TRUE, deps, FALSE)
\* useEffect(() => { ...; if (n < 2) return () => {...} }) without a deps array
EveryRenderEffectHook == HS("effect", 2, FALSE, FALSE, <<>>, TRUE)

\* useEffect(() => { setShow(0) }, []) in Gate, setShow(1) in Opener
SetterEffectHook == HS("effect", 0, FALSE, TRUE, <<>>, FALSE)

HookCalls(type) ==
  CASE type = "Counter" -> <<StateHook(0), EffectHook(<<1>>), MemoHook(<<>>)>>
    [] type = "Toggle" -> <<StateHook(0)>>
    [] type = "Inner" -> <<EffectHook(<<>>)>>
    [] type = "App" -> <<StateHook(0)>>
    [] type = "List" -> <<StateHook(0)>>
    [] type = "Form" -> <<LazyStateHook(5), StateHook(0)>>
    [] type = "Page" -> <<StateHook(0)>>
    [] type = "Fx" -> <<StateHook(0), EveryRenderEffectHook>>
    [] type = "Gate" -> <<StateHook(1), SetterEffectHook>>
    [] type = "Opener" -> <<StateHook(0), SetterEffectHook>>
    [] type = "Faulty" -> <<StateHook(0)>>
    [] type = "Memo" -> <<StateHook(0), StateHook(0), MemoHook(<<1, 0 - 2>>)>>
    [] type = "Handler" ->
         <<StateHook(0), StateHook(0), MemoHook(<<1, 0 - 2>>), CallbackHook(<<1, 0 - 2>>)>>
    [] OTHER -> <<>>

Li(key, text) == El("li", key, <<KVal(ArgStr(text))>>)
Ul(a, b, c) == El("ul", NoKey, <<KMap(<<a, b, c>>)>>)

\* items.map((item) => <li key={item.id}>{item.text}</li>) for the three orders
\* of items the List component is given.
ListOrders ==
  <<Ul(Li(1, "A"), Li(2, "B"), Li(3, "C")), Ul(Li(3, "C"), Li(2, "B"), Li(1, "A")),
    Ul(Li(2, "B"), Li(3, "C"), Li(1, "A"))>>

RECURSIVE AsNodes(_)
AsNodes(ids) ==
  IF ids = <<>> THEN <<>> ELSE <<KVal(ArgNode(Head(ids)))>> \o AsNodes(Tail(ids))

\* What the component function returns, given the results of its hook calls.
ComponentOutput(type, vals, vnode) ==
  CASE type = "Counter" -> KEl(El("p", NoKey, <<KVal(ArgNum(vals[1]))>>))
    [] type = "Toggle" ->
         IF vals[1] = 0 THEN KVal(ArgStr("off"))
         ELSE IF vals[1] = 1 THEN KEl(El("span", NoKey, <<>>))
         ELSE KEl(El("Inner", NoKey, <<>>))
    [] type = "Inner" -> KEl(El("i", NoKey, <<>>))
    [] type = "App" ->
         KEl(El("div", NoKey, <<KEl(El("Toggle", NoKey, <<>>)),
                                KEl(El("Counter", NoKey, <<>>)),
                                KEl(El("Inner", NoKey, <<>>))>>))
    [] type = "Wrapper" ->
         KEl(El("div", NoKey, <<KVal(ArgArr(flat(vnode.children)))>>))
    [] type = "Spread" -> KEl(El("div", NoKey, AsNodes(flat(vnode.children))))
    [] type = "List" -> KEl(ListOrders[vals[1] + 1])
    [] type = "Form" ->
         KEl(El("p", NoKey, <<KVal(ArgNum(vals[1])), KVal(ArgNum(vals[2]))>>))
    [] type = "Page" -> KEl(El("div", NoKey, <<KEl(El("Form", NoKey, <<>>))>>))
    [] type \in {"Memo", "Handler"} -> KEl(El("p", NoKey, <<KVal(ArgNum(vals[1]))>>))
    [] type = "Prim" -> KVal(input.returns)
    [] type = "Fx" -> KEl(El("p", NoKey, <<KVal(ArgNum(vals[1]))>>))
    [] type = "Holder" -> KEl(El("Toggle", NoKey, <<>>))
    [] type \in {"Gate", "Opener"} ->
         IF vals[1] = 1 THEN KEl(El("div", NoKey, <<KEl(El("Inner", NoKey, <<>>))>>))
         ELSE KEl(El("div", NoKey, <<>>))
    [] OTHER ->
         KEl(El("ul", NoKey, <<KMap(<<El("Inner", 1, <<>>), El("Inner", 2, <<>>)>>)>>))

\* The deps array a hook call passes: [vals[j], ...] for the slots j listed;
\* an entry 0 - j stands for ...(vals[j] > 1 ? [0] : []), which makes the
\* array longer when slot j holds more than 1.
DepsOf(s, vals) ==
  LET present == SelectSeq(s.deps, LAMBDA j : j > 0 \/ vals[0 - j] > 1)
  IN [k \in 1..Len(present) |-> IF present[k] > 0 THEN vals[present[k]] ELSE 0]

RECURSIVE callHooks(_, _, _, _)
callHooks(w, calls, i, vals) ==
  IF i > Len(calls) THEN [w EXCEPT !.ret = vals]
  ELSE LET s == calls[i]
           deps == DepsOf(s, vals)
           w1 == CASE s.h = "state" -> useState(w, s)
                   [] s.h = "effect" -> useEffect(w, s.hasDeps, deps)
                   [] s.h = "callback" -> useCallback(w, s.hasDeps, deps)
                   [] OTHER -> useMemo(w, s.hasDeps, deps)
       IN callHooks(w1, calls, i + 1, Append(vals, w1.ret))

\* (componentNode.type as Function)(componentNode.props); the function of
\* Faulty throws after its hook call.
callComponent(w, c) ==
  LET type == w.vn[c].type
      w1 == callHooks(w, HookCalls(type), 1, <<>>)
  IN IF w1.err THEN w1
     ELSE IF type = "Faulty" THEN Throw(w1, "Faulty")
     ELSE LET out == ComponentOutput(type, w1.ret, w1.vn[c])
          IN IF out.t = "el"
             THEN LET w2 == Build(w1, out.d) IN [w2 EXCEPT !.ret = ArgNode(w2.ret)]
             ELSE [w1 EXCEPT !.ret = out.a]

\* The effect callbacks of the applications: record the call, return a cleanup.
\* A slot past the component's own hook calls holds the callback () => {} of a
\* hook called outside the component function.
ReturnsCleanup(vn, c, i) ==
  /\ i <= Len(HookCalls(vn[c].type))
  /\ LET s == HookCalls(vn[c].type)[i]
     IN s.cleanup /\ (s.init > 0 => vn[c].hooks[1].v < s.init)

\* The effects of Gate and Opener call the setter of the component's first
\* slot, Gate with 0 and Opener with 1.
CallsSetter(vn, c, i) == vn[c].type \in {"Gate", "Opener"} /\ i = 2

RECURSIVE setState(_, _, _, _, _)
effectCallback(w, c, i) ==
  Bind(IF CallsSetter(w.vn, c, i)
       THEN setState(Log(w, "effect", c, i, w.vn[c].hooks[i].callback), c, 1, FALSE,
                     IF w.vn[c].type = "Gate" THEN 0 ELSE 1)
       ELSE Log(w, "effect", c, i, w.vn[c].hooks[i].callback),
       LAMBDA w1 :
         [w1 EXCEPT !.ret = IF ReturnsCleanup(w.vn, c, i)
                            THEN w.vn[c].hooks[i].callback ELSE None])

\* A cleanup function of the applications: record the call.
cleanupCallback(w, c, i) ==
  Log4(w, "cleanup", c, i, w.vn[c].hooks[i].cleanup,
       IF IsAttached(w.dom, w.vn[c].realNode) THEN 1 ELSE 0)

(***************************************************************************)
(* cleanupVirtualNodeTree                                                  *)
(***************************************************************************)
RECURSIVE cleanupHooks(_, _, _)
cleanupHooks(w, v, i) ==
  IF i > Len(w.vn[v].hooks) THEN w
  ELSE LET h == w.vn[v].hooks[i]
       IN cleanupHooks(IF IsObjectHook(h) /\ h.cleanup # None
                       THEN cleanupCallback(w, v, i) ELSE w, v, i + 1)

RECURSIVE cleanupVirtualNodeTree(_, _), cleanupChildren(_, _)
cleanupVirtualNodeTree(w, v) ==
  IF w.err THEN w
  ELSE LET w1 == cleanupHooks(w, v, 1)
           w2 == IF w1.vn[v].child # None
                 THEN cleanupVirtualNodeTree(w1, w1.vn[v].child) ELSE w1
       IN cleanupChildren(w2, w2.vn[v].children)

\* for (const child of props.children): a nested array has no hooks, no child
\* and no props, so nothing below it is visited.
cleanupChildren(w, items) ==
  IF items = <<>> THEN w
  ELSE cleanupChildren(IF Head(items).arr THEN w
                       ELSE cleanupVirtualNodeTree(w, Head(items).ids[1]),
                       Tail(items))

(***************************************************************************)
(* scheduleEffect's closure and flushEffects                               *)
(***************************************************************************)
\* An effect execution that leaves the stored cleanup as it finds it.
runEffect_keepCleanup(w, e) ==
  LET w1 == IF w.vn[e.c].hooks[e.slot].cleanup # None
            THEN cleanupCallback(w, e.c, e.slot) ELSE w
  IN effectCallback(w1, e.c, e.slot)

runEffect(w, e) ==
  Bind(effectCallback(IF w.vn[e.c].hooks[e.slot].cleanup # None
                      THEN cleanupCallback(w, e.c, e.slot) ELSE w,
                      e.c, e.slot),
       LAMBDA w2 : [w2 EXCEPT !.vn[e.c].hooks[e.slot].cleanup = w2.ret])

RECURSIVE drainEffects(_)
drainEffects(w) ==
  IF w.err \/ w.queue = <<>> THEN w
  ELSE drainEffects(runEffect([w EXCEPT !.queue = Tail(@)], Head(w.queue)))

\* A flush that takes the scheduled effects from the end of the queue.
Reverse(q) == [i \in 1..Len(q) |-> q[Len(q) + 1 - i]]

flushEffects_lifo(w) ==
  IF w.err THEN w
  ELSE Bind(drainEffects([Log(w, "flush", 0, 0, 0) EXCEPT !.queue = Reverse(@)]),
            LAMBDA w1 : IF w1.err THEN w1 ELSE [w1 EXCEPT !.queue = <<>>])

\* A flush that empties the queue without running the scheduled effects.
flushEffects_clearOnly(w) ==
  IF w.err THEN w ELSE [Log(w, "flush", 0, 0, 0) EXCEPT !.queue = <<>>]

flushEffects(w) ==
  IF w.err THEN w
  ELSE Bind(drainEffects(Log(w, "flush", 0, 0, 0)),
            LAMBDA w1 : IF w1.err THEN w1 ELSE [w1 EXCEPT !.queue = <<>>])

(***************************************************************************)
(* createElement / createHTMLElement                                       *)
(***************************************************************************)
(***************************************************************************)
(* Props other than key and children, as name and value in the order of    *)
(* the props object.  A value is                                           *)
(*   [t |-> "str", s]   a string         [t |-> "num", n]   a number       *)
(*   [t |-> "bool", n]  false, true as 0, 1       "null"       "undef"     *)
(*   [t |-> "fn", n]    a function, n its identity                         *)
(*   [t |-> "obj", n, decls]  an object, n its identity, decls its entries *)
(***************************************************************************)
PV(t, str, n, decls) == [t |-> t, s |-> str, n |-> n, decls |-> decls]
Str(str) == PV("str", str, 0, <<>>)
Fn(n) == PV("fn", "", n, <<>>)
Obj(n, decls) == PV("obj", "", n, decls)
Undefined == PV("undef", "", 0, <<>>)
Entry(name, value) == [name |-> name, value |-> value]

HasEntry(m, name) == \E i \in 1..Len(m) : m[i].name = name
SetEntry(m, name, value) ==
  IF HasEntry(m, name)
  THEN [i \in 1..Len(m) |-> IF m[i].name = name THEN Entry(name, value) ELSE m[i]]
  ELSE Append(m, Entry(name, value))
DropEntry(m, name) == SelectSeq(m, LAMBDA e : e.name # name)

\* key in props, props[key]
HasProp(props, key) == HasEntry(props, key)
GetProp(props, key) ==
  IF HasProp(props, key)
  THEN props[CHOOSE i \in 1..Len(props) : props[i].name = key].value
  ELSE Undefined

\* a === b
StrictEq(a, b) == a.t = b.t /\ a.s = b.s /\ a.n = b.n

\* String(value); the source text of a function is not modelled.
PropString(v) ==
  CASE v.t = "str" -> v.s
    [] v.t = "num" -> ToStr(v.n)
    [] v.t = "bool" -> IF v.n = 1 THEN "true" ELSE "false"
    [] v.t = "null" -> "null"
    [] v.t = "undef" -> "undefined"
    [] v.t = "fn" -> "function"
    [] OTHER -> "[object Object]"

PropTruthy(v) ==
  CASE v.t = "str" -> v.s # ""
    [] v.t \in {"num", "bool"} -> v.n # 0
    [] v.t \in {"null", "undef"} -> FALSE
    [] OTHER -> TRUE

\* Element.setAttribute, removeAttribute, addEventListener, removeEventListener
\* The host keeps the inline style and the attribute named style as one: the
\* attribute is parsed into the declarations, and a change of the declarations
\* is written back as their text.  The texts the applications use are parsed.
ParseCss(text) ==
  IF text \in {"color: red", "color: red;"} THEN <<Entry("color", "red")>> ELSE <<>>

RECURSIVE SerializeCss(_)
SerializeCss(decls) ==
  IF decls = <<>> THEN ""
  ELSE Head(decls).name \o ": " \o Head(decls).value \o ";"
         \o (IF Len(decls) > 1 THEN " " ELSE "") \o SerializeCss(Tail(decls))

setAttribute(w, el, name, value) ==
  [Log(w, "setAttribute", el, 0, 0) EXCEPT
     !.dom[el].attributes = SetEntry(@, name, value),
     !.dom[el].style = IF name = "style" THEN ParseCss(value) ELSE @]
removeAttribute(w, el, name) ==
  [Log(w, "removeAttribute", el, 0, 0) EXCEPT
     !.dom[el].attributes = DropEntry(@, name),
     !.dom[el].style = IF name = "style" THEN <<>> ELSE @]
\* A binding that does not recognise a listener it has bound before.
addEventListener_again(w, el, eventName, fn) ==
  [Log(w, "addEventListener", el, fn, 0) EXCEPT
     !.dom[el].listeners = Append(@, Entry(eventName, fn))]

addEventListener(w, el, eventName, fn) ==
  [Log(w, "addEventListener", el, fn, 0) EXCEPT
     !.dom[el].listeners =
       IF \E i \in 1..Len(@) : @[i] = Entry(eventName, fn) THEN @
       ELSE Append(@, Entry(eventName, fn))]
removeEventListener(w, el, eventName, fn) ==
  [Log(w, "removeEventListener", el, fn, 0) EXCEPT
     !.dom[el].listeners = SelectSeq(@, LAMBDA e : e # Entry(eventName, fn))]

\* el.style.cssText = text: the text is parsed into the declarations and the
\* attribute named style holds their text.
setCssText(w, el, text) ==
  [Log(w, "style", el, 0, 0) EXCEPT
     !.dom[el].style = ParseCss(text),
     !.dom[el].attributes = SetEntry(@, "style", SerializeCss(ParseCss(text)))]
\* el.style[name]
styleValue(w, el, name) ==
  IF HasEntry(w.dom[el].style, name)
  THEN w.dom[el].style[CHOOSE i \in 1..Len(w.dom[el].style) :
                         w.dom[el].style[i].name = name].value
  ELSE ""
\* The keys that are array indices: "0", "1", ...
IsIndexKey(name) == \E n \in 0..10 : name = ToStr(n)

\* el.style[name] = value: a write that changes no declaration leaves the
\* attribute as it is.  A CSSStyleDeclaration has no setter for indexed
\* properties: in the strict-mode code of the class a write under an index
\* throws a TypeError.
setStyleProperty(w, el, name, value) ==
  LET decls == IF value = "" THEN DropEntry(w.dom[el].style, name)
               ELSE SetEntry(w.dom[el].style, name, value)
  IN IF w.err THEN w
     ELSE IF IsIndexKey(name) THEN Throw(w, "TypeError")
     ELSE IF decls = w.dom[el].style THEN Log(w, "style", el, 0, 0)
     ELSE [Log(w, "style", el, 0, 0) EXCEPT
             !.dom[el].style = decls,
             !.dom[el].attributes = SetEntry(@, "style", SerializeCss(decls))]

RECURSIVE setEachAttribute(_, _, _)
setEachAttribute(w, el, props) ==
  IF props = <<>> THEN w
  ELSE setEachAttribute(setAttribute(w, el, Head(props).name, PropString(Head(props).value)),
                        el, Tail(props))

createHTMLElement(w, v) ==
  LET w1 == createHostNode(w, "element", w.vn[v].type, "")
  IN setEachAttribute([w1 EXCEPT !.vn[v].realNode = w1.ret], w1.ret, w1.vn[v].attrs)

(***************************************************************************)
(* updateVirtualNodeProps: removeOldProps, then applyNewProps.  The side   *)
(* table eventListeners is read and never written, so currentListeners is  *)
(* a new record in every call and what is written to it is dropped.  The   *)
(* table is kept as entries element -> record, a record as entries event   *)
(* name -> listener.                                                       *)
(***************************************************************************)
\* The prop names that start with "on".
EventProps == {"onClick", "onChange", "onInput"}

\* arg.slice(2).toLowerCase(), change becoming input
convertToEventName(arg) ==
  LET eventName == CASE arg = "onClick" -> "click"
                     [] arg = "onChange" -> "change"
                     [] arg = "onInput" -> "input"
                     [] OTHER -> arg
  IN IF eventName = "change" THEN "input" ELSE eventName

\* The keys for (const key in style) visits: the entries of an object, the
\* character indices of a string, none for another value.
DeclsOf(style) ==
  IF style.t = "obj" THEN style.decls
  ELSE IF style.t = "str" THEN [i \in 1..Len(style.s) |-> Entry(ToStr(i - 1), "")]
  ELSE <<>>

RECURSIVE clearGoneStyles(_, _, _, _), setNewStyles(_, _, _)
clearGoneStyles(w, el, prevDecls, nextDecls) ==
  IF w.err \/ prevDecls = <<>> THEN w
  ELSE clearGoneStyles(IF ~HasEntry(nextDecls, Head(prevDecls).name)
                       THEN setStyleProperty(w, el, Head(prevDecls).name, "") ELSE w,
                       el, Tail(prevDecls), nextDecls)

setNewStyles(w, el, nextDecls) ==
  IF w.err \/ nextDecls = <<>> THEN w
  ELSE setNewStyles(IF styleValue(w, el, Head(nextDecls).name) # Head(nextDecls).value
                    THEN setStyleProperty(w, el, Head(nextDecls).name, Head(nextDecls).value)
                    ELSE w,
                    el, Tail(nextDecls))

\* A style diff that clears what is gone and sets nothing.
applyStyle_clearOnly(w, el, prevStyle, nextStyle) ==
  IF nextStyle.t # "obj"
  THEN setCssText(w, el, IF PropTruthy(nextStyle) THEN PropString(nextStyle) ELSE "")
  ELSE clearGoneStyles(w, el, DeclsOf(prevStyle), nextStyle.decls)

applyStyle(w, el, prevStyle, nextStyle) ==
  IF nextStyle.t # "obj"
  THEN setCssText(w, el, IF PropTruthy(nextStyle) THEN PropString(nextStyle) ELSE "")
  ELSE setNewStyles(clearGoneStyles(w, el, DeclsOf(prevStyle), nextStyle.decls),
                    el, nextStyle.decls)

removeOldProp(w, el, key, prevProp) ==
  IF key \in EventProps /\ prevProp.t = "fn"
  THEN [removeEventListener(w, el, convertToEventName(key), prevProp.n) EXCEPT
          !.currentListeners = DropEntry(@, convertToEventName(key))]
  ELSE IF key = "style" THEN setCssText(w, el, "")
  ELSE IF key = "className" THEN removeAttribute(w, el, "class")
  ELSE removeAttribute(w, el, key)

RECURSIVE removeOldProps(_, _, _, _)
removeOldProps(w, el, prevProps, nextProps) ==
  IF w.err \/ prevProps = <<>> THEN w
  ELSE LET key == Head(prevProps).name
           prevProp == Head(prevProps).value
       IN removeOldProps(
            IF ~HasProp(nextProps, key) \/ ~StrictEq(prevProp, GetProp(nextProps, key))
            THEN removeOldProp(w, el, key, prevProp) ELSE w,
            el, Tail(prevProps), nextProps)

\* value ?? {}
OrEmptyObject(v) == IF v.t \in {"null", "undef"} THEN Obj(0, <<>>) ELSE v

applyNewProp(w, el, key, prevProp, nextProp) ==
  IF StrictEq(prevProp, nextProp) /\ nextProp.t # "obj" /\ key # "style" THEN w
  ELSE IF key \in EventProps
  THEN LET w1 == IF prevProp.t = "fn"
                 THEN removeEventListener(w, el, convertToEventName(key), prevProp.n)
                 ELSE w
       IN IF nextProp.t = "fn"
          THEN [addEventListener(w1, el, convertToEventName(key), nextProp.n) EXCEPT
                  !.currentListeners = SetEntry(@, convertToEventName(key), nextProp.n)]
          ELSE w1
  ELSE IF key = "style"
  THEN applyStyle(w, el, OrEmptyObject(prevProp), OrEmptyObject(nextProp))
  ELSE IF key = "className"
  THEN IF PropTruthy(nextProp) THEN setAttribute(w, el, "class", PropString(nextProp))
       ELSE removeAttribute(w, el, "class")
  ELSE IF nextProp.t \in {"null", "undef"} \/ (nextProp.t = "bool" /\ nextProp.n = 0)
  THEN removeAttribute(w, el, key)
  ELSE setAttribute(w, el, key, IF nextProp.t = "bool" THEN "" ELSE PropString(nextProp))

RECURSIVE applyNewProps(_, _, _, _)
applyNewProps(w, el, prevProps, nextProps) ==
  IF w.err \/ nextProps = <<>> THEN w
  ELSE applyNewProps(
         applyNewProp(w, el, Head(nextProps).name, GetProp(prevProps, Head(nextProps).name),
                      Head(nextProps).value),
         el, prevProps, Tail(nextProps))

\* element instanceof Element: the text nodes are left alone.
\* this.eventListeners.get(el) ?? {}
ListenersOf(table, el) == IF HasEntry(table, el) THEN GetProp(table, el) ELSE <<>>

\* currentListeners is the record of the table when the table has one for
\* the element: what is written to it is then written to the table.
updateVirtualNodeProps(w, element, prevProps, nextProps) ==
  IF w.dom[element].kind # "element" THEN w
  ELSE LET w0 == [w EXCEPT !.currentListeners = ListenersOf(w.listeners, element)]
           w1 == applyNewProps(removeOldProps(w0, element, prevProps, nextProps),
                               element, prevProps, nextProps)
       IN IF HasEntry(w.listeners, element)
          THEN [w1 EXCEPT !.listeners = SetEntry(@, element, w1.currentListeners)]
          ELSE w1

createElement(w, v) ==
  IF isTextElement(w.vn[v]) THEN createHostNode(w, "text", "#text", w.vn[v].value)
  ELSE createHTMLElement(w, v)

(***************************************************************************)
(* reorderChildren: i runs from length-2 down to 0 (here length-1 .. 1).   *)
(***************************************************************************)
RECURSIVE reorderFrom(_, _, _, _)
reorderFrom(w, parentRealNode, newVirtualChildren, i) ==
  IF w.err \/ i < 1 THEN w
  ELSE LET newChild == w.vn[newVirtualChildren[i]].realNode
           currentNextSibling ==
             IF newChild = None THEN None ELSE nextSibling(w.dom, newChild)
           newNextSibling == w.vn[newVirtualChildren[i + 1]].realNode
           w1 == IF newChild # None /\ newNextSibling # None
                    /\ currentNextSibling # newNextSibling
                 THEN insertBefore(w, parentRealNode, newChild, newNextSibling)
                 ELSE w
       IN reorderFrom(w1, parentRealNode, newVirtualChildren, i - 1)

\* A loop that leaves the last pair of children as it finds them.
reorderChildren_skipLast(w, parentRealNode, newVirtualChildren) ==
  reorderFrom(w, parentRealNode, newVirtualChildren, Len(newVirtualChildren) - 2)

reorderChildren(w, parentRealNode, newVirtualChildren) ==
  reorderFrom(w, parentRealNode, newVirtualChildren, Len(newVirtualChildren) - 1)

(***************************************************************************)
(* oldChildrenMap: a Map, kept as its entries in insertion order.          *)
(***************************************************************************)
MapHas(m, k) == \E i \in 1..Len(m) : m[i].key = k
MapGet(m, k) == IF MapHas(m, k) THEN m[CHOOSE i \in 1..Len(m) : m[i].key = k].node ELSE None
MapSet(m, k, node) ==
  IF MapHas(m, k)
  THEN [i \in 1..Len(m) |-> IF m[i].key = k THEN [key |-> k, node |-> node] ELSE m[i]]
  ELSE Append(m, [key |-> k, node |-> node])
MapDelete(m, k) == SelectSeq(m, LAMBDA e : e.key # k)

\* props.key ?? i, with i the 0-based position
KeyOrIndex(vnode, i) == IF vnode.key # NoKey THEN vnode.key ELSE i

\* An old-children map that stores the children without key from the end.
RECURSIVE buildOldChildrenMap_reversed(_, _, _, _)
buildOldChildrenMap_reversed(w, oldVirtualChildren, i, m) ==
  IF i >= Len(oldVirtualChildren) THEN m
  ELSE LET oldChild == oldVirtualChildren[i + 1]
       IN buildOldChildrenMap_reversed(w, oldVirtualChildren, i + 1,
            MapSet(m, KeyOrIndex(w.vn[oldChild], Len(oldVirtualChildren) - 1 - i),
                   oldChild))

RECURSIVE buildOldChildrenMap(_, _, _, _)
buildOldChildrenMap(w, oldVirtualChildren, i, m) ==
  IF i >= Len(oldVirtualChildren) THEN m
  ELSE LET oldChild == oldVirtualChildren[i + 1]
       IN buildOldChildrenMap(w, oldVirtualChildren, i + 1,
                              MapSet(m, KeyOrIndex(w.vn[oldChild], i), oldChild))

(***************************************************************************)
(* reconcile and the methods it is mutually recursive with.  A world's     *)
(* ret carries the oldChildrenMap through the loop of flow 2.              *)
(***************************************************************************)
RECURSIVE reconcile(_, _, _, _, _), executeFunctionComponent(_, _, _, _),
          renderFunctionComponent(_, _, _, _), reconcileChildren(_, _, _, _, _),
          reconcileOldAndNewChildrenByCompare(_, _, _, _, _),
          reconcileNewChildren(_, _, _, _, _, _), removeRemaining(_, _, _, _)

\* !childOfFunctionComponent
Falsy(r) ==
  \/ r.k \in {"null", "undef"}
  \/ r.k = "bool" /\ ~r.b
  \/ r.k = "num" /\ r.n = 0
  \/ r.k = "str" /\ r.s = ""

\* The component's return value as a VirtualNode (ret: its identity).
coerceReturnValue(w, r) ==
  IF w.err THEN w
  ELSE IF Falsy(r) THEN createTextElement(w, "")
  ELSE IF r.k # "node" THEN createTextElement(w, StringOf(r))
  ELSE [w EXCEPT !.ret = r.ids[1]]

finishFunctionComponent(w, componentNode, childOfFunctionComponent) ==
  IF w.err THEN w
  ELSE [w EXCEPT
          !.vn[componentNode].child = childOfFunctionComponent,
          !.vn[componentNode].realNode = w.vn[childOfFunctionComponent].realNode,
          !.cur = None]

executeFunctionComponent(w, componentNode, parentNode, oldChild) ==
  IF w.err THEN w
  ELSE Bind(callComponent([Log(w, "exec", componentNode, oldChild, 0) EXCEPT
                             !.cur = componentNode, !.hidx = 0], componentNode),
         LAMBDA w2 :
       Bind(coerceReturnValue(w2, w2.ret), LAMBDA w3 :
         IF w3.err THEN w3
         ELSE finishFunctionComponent(
                reconcile([w3 EXCEPT !.vn[w3.ret].parentNode = parentNode,
                                     !.vn[w3.ret].parentVirtualNode = componentNode],
                          parentNode, componentNode, oldChild, w3.ret),
                componentNode, w3.ret)))

renderFunctionComponent(w, parentNode, oldVirtualNode, newVirtualNode) ==
  executeFunctionComponent(
    IF oldVirtualNode = None THEN w
    ELSE Log(w, "rerender", newVirtualNode, oldVirtualNode, 0),
    newVirtualNode, parentNode,
    IF oldVirtualNode = None THEN None ELSE w.vn[oldVirtualNode].child)

\* The loop of reconcileNewChildren taking the new children last to first.
reconcileNewChildren_lastFirst(w, parentRealNode, parentVirtualNode, newVirtualChildren, i, m) ==
  IF w.err THEN w
  ELSE IF i >= Len(newVirtualChildren) THEN [w EXCEPT !.ret = m]
  ELSE LET k == Len(newVirtualChildren) - i
       IN reconcileNewChildren(
            reconcile(w, parentRealNode, parentVirtualNode,
                      MapGet(m, KeyOrIndex(w.vn[newVirtualChildren[k]], k - 1)),
                      newVirtualChildren[k]),
            parentRealNode, parentVirtualNode, newVirtualChildren, i + 1,
            MapDelete(m, KeyOrIndex(w.vn[newVirtualChildren[k]], k - 1)))

reconcileNewChildren(w, parentRealNode, parentVirtualNode, newVirtualChildren, i, m) ==
  IF w.err THEN w
  ELSE IF i >= Len(newVirtualChildren) THEN [w EXCEPT !.ret = m]
  ELSE reconcileNewChildren(
         reconcile(w, parentRealNode, parentVirtualNode,
                   MapGet(m, KeyOrIndex(w.vn[newVirtualChildren[i + 1]], i)),
                   newVirtualChildren[i + 1]),
         parentRealNode, parentVirtualNode, newVirtualChildren, i + 1,
         MapDelete(m, KeyOrIndex(w.vn[newVirtualChildren[i + 1]], i)))

removeRemaining(w, parentRealNode, parentVirtualNode, m) ==
  IF w.err \/ m = <<>> THEN w
  ELSE removeRemaining(
         reconcile(w, parentRealNode, parentVirtualNode, Head(m).node, None),
         parentRealNode, parentVirtualNode, Tail(m))

reconcileOldAndNewChildrenByCompare(w, parentRealNode, parentVirtualNode, oldVirtualChildren, newVirtualChildren) ==
  IF w.err THEN w
  ELSE Bind(reconcileNewChildren(w, parentRealNode, parentVirtualNode,
                                 newVirtualChildren, 0,
                                 buildOldChildrenMap(w, oldVirtualChildren, 0, <<>>)),
         LAMBDA w1 :
         IF w1.err THEN w1
         ELSE removeRemaining(
                reorderChildren(w1, parentRealNode, newVirtualChildren),
                parentRealNode, parentVirtualNode, w1.ret))

reconcileChildren(w, nodeToBeUpdated, parentVirtualNode, oldVirtual, newVirtual) ==
  IF w.err THEN w
  ELSE reconcileOldAndNewChildrenByCompare(
         updateVirtualNodeProps(w, nodeToBeUpdated,
           IF oldVirtual = None THEN <<>> ELSE w.vn[oldVirtual].attrs,
           IF newVirtual = None THEN <<>> ELSE w.vn[newVirtual].attrs),
         nodeToBeUpdated, parentVirtualNode,
         IF oldVirtual = None THEN <<>> ELSE flat(w.vn[oldVirtual].children),
         IF newVirtual = None THEN <<>> ELSE flat(w.vn[newVirtual].children))

\* const newRealNode = this.createElement(v); v.realNode = newRealNode (ret)
createRealNode(w, v) ==
  IF w.err THEN w
  ELSE Bind(createElement(w, v), LAMBDA w1 : [w1 EXCEPT !.vn[v].realNode = w1.ret])

setParents(w, parentNode, parentVirtualNode, newVirtualNode) ==
  IF newVirtualNode = None THEN w
  ELSE [w EXCEPT !.vn[newVirtualNode].parentRealNode = parentNode,
                 !.vn[newVirtualNode].parentVirtualNode = parentVirtualNode]

\* What reconcile does in each of its cases.
ReconcileCase(w, oldVirtualNode, newVirtualNode) ==
  IF oldVirtualNode = None /\ newVirtualNode = None THEN "none"
  ELSE IF newVirtualNode = None THEN "remove"
  ELSE IF oldVirtualNode = None
  THEN IF isFunctionComponent(w.vn[newVirtualNode]) THEN "mount component" ELSE "mount"
  ELSE IF w.vn[oldVirtualNode].type # w.vn[newVirtualNode].type
  THEN IF isFunctionComponent(w.vn[newVirtualNode])
       THEN "replace by component" ELSE "replace"
  ELSE IF isFunctionComponent(w.vn[newVirtualNode]) THEN "update component"
  ELSE IF isTextElement(w.vn[newVirtualNode]) THEN "update text"
  ELSE "update"

\* Ghost record of case 3: the old and the new node differ in type.
noteKindChange(w, oldVirtualNode, newVirtualNode) ==
  IF ReconcileCase(w, oldVirtualNode, newVirtualNode) \in {"replace", "replace by component"}
  THEN Log(w, "retype", newVirtualNode, oldVirtualNode, 0)
  ELSE w

reconcileCases(w, parentNode, parentVirtualNode, oldVirtualNode, newVirtualNode, case) ==
  CASE case = "none" -> w
    [] case = "remove" ->
         cleanupVirtualNodeTree(
           removeChild(Log(w, "unmount", oldVirtualNode, 0, 0), parentNode,
                       w.vn[oldVirtualNode].realNode),
           oldVirtualNode)
    [] case \in {"mount component", "replace by component", "update component"} ->
         renderFunctionComponent(
           IF case = "replace by component"
           THEN Bind(cleanupVirtualNodeTree(w, oldVirtualNode), LAMBDA w2 :
                  removeChild(w2, parentNode, w2.vn[oldVirtualNode].realNode))
           ELSE w,
           parentNode,
           IF case = "update component" THEN oldVirtualNode ELSE None,
           newVirtualNode)
    [] case \in {"mount", "replace"} ->
         Bind(createRealNode(IF case = "replace"
                             THEN cleanupVirtualNodeTree(w, oldVirtualNode) ELSE w,
                             newVirtualNode),
           LAMBDA w3 :
           reconcileChildren(
             IF case = "replace"
             THEN replaceChild(w3, parentNode, w3.ret, w3.vn[oldVirtualNode].realNode)
             ELSE appendChild(w3, parentNode, w3.ret),
             w3.ret, parentVirtualNode, None, newVirtualNode))
    [] case = "update text" ->
         setTextContent(
           [w EXCEPT !.vn[newVirtualNode].realNode = w.vn[oldVirtualNode].realNode],
           w.vn[oldVirtualNode].realNode, w.vn[newVirtualNode].value)
    [] OTHER ->
         reconcileChildren(
           [w EXCEPT !.vn[newVirtualNode].realNode = w.vn[oldVirtualNode].realNode],
           w.vn[oldVirtualNode].realNode, parentVirtualNode, oldVirtualNode,
           newVirtualNode)

reconcile(w, parentNode, parentVirtualNode, oldVirtualNode, newVirtualNode) ==
  IF w.err THEN w
  ELSE reconcileCases(setParents(noteKindChange(w, oldVirtualNode, newVirtualNode),
                                 parentNode, parentVirtualNode, newVirtualNode),
                      parentNode, parentVirtualNode, oldVirtualNode, newVirtualNode,
                      ReconcileCase(w, oldVirtualNode, newVirtualNode))

(***************************************************************************)
(* renderSubtree, the setState closure of useState, and render             *)
(***************************************************************************)
\* A subtree re-render that leaves the scheduled effects in the queue.
renderSubtree_noFlush(w, virtualNode) ==
  IF ~isFunctionComponent(w.vn[virtualNode]) THEN w
  ELSE executeFunctionComponent(w, virtualNode, w.vn[virtualNode].parentRealNode,
                                w.vn[virtualNode].child)

\* A subtree re-render that starts at the parent virtual node when that is
\* a component.
renderSubtree_fromParent(w, virtualNode) ==
  LET parent == w.vn[virtualNode].parentVirtualNode
      top == IF parent # None /\ isFunctionComponent(w.vn[parent]) THEN parent
             ELSE virtualNode
  IN IF ~isFunctionComponent(w.vn[virtualNode]) THEN w
     ELSE flushEffects(
            executeFunctionComponent(w, top, w.vn[top].parentRealNode, w.vn[top].child))

renderSubtree(w, virtualNode) ==
  IF ~isFunctionComponent(w.vn[virtualNode]) THEN w
  ELSE flushEffects(
         executeFunctionComponent(w, virtualNode, w.vn[virtualNode].parentRealNode,
                                  w.vn[virtualNode].child))

\* A setter that stores its argument as it is, never calling an updater.
setState_noUpdater(w, closureRenderingComponent, closureIndex, isUpdater, updatedState) ==
  LET prev == w.vn[closureRenderingComponent].hooks[closureIndex].v
      w1 == [Log4(w, "store", closureRenderingComponent, closureIndex, updatedState, prev)
               EXCEPT !.vn[closureRenderingComponent].hooks[closureIndex].v = updatedState]
  IN renderSubtree(w1, closureRenderingComponent)

\* setState(updatedState) of the closure made for slot closureIndex of
\* closureRenderingComponent; isUpdater: updatedState is prev => prev + 1.
setState(w, closureRenderingComponent, closureIndex, isUpdater, updatedState) ==
  LET prev == w.vn[closureRenderingComponent].hooks[closureIndex].v
      next == IF isUpdater THEN prev + 1 ELSE updatedState
      w1 == [Log4(w, "store", closureRenderingComponent, closureIndex, next, prev) EXCEPT
               !.vn[closureRenderingComponent].hooks[closureIndex].v = next]
  IN renderSubtree(w1, closureRenderingComponent)

\* A render that reconciles and flushes without recording the new root.
render_noRecord(w, virtualNode, container) ==
  LET w1 == reconcile(w, container, None, w.roots[container], virtualNode)
  IN IF w1.err THEN w1 ELSE flushEffects(w1)

render(w, virtualNode, container) ==
  LET prevRootNode == w.roots[container]
      w1 == reconcile(w, container, None, prevRootNode, virtualNode)
  IN IF w1.err THEN w1
     ELSE flushEffects([w1 EXCEPT !.roots[container] = virtualNode])

(***************************************************************************)
(* The trees the applications pass to render().                            *)
(***************************************************************************)
Section(kids) == El("section", NoKey, kids)
InnerEl == El("Inner", NoKey, <<>>)

\* <div id="a" className="box" onClick={onClick} style={boxStyle}/>
Box ==
  ElP("div", <<Entry("id", Str("a")), Entry("className", Str("box")),
               Entry("onClick", Fn(1)),
               Entry("style", Obj(1, <<Entry("color", "red")>>))>>, <<>>)

TreeInputs ==
  <<El("App", NoKey, <<>>), El("div", NoKey, <<>>), El("Counter", NoKey, <<>>), Box>>

KeyedInputs ==
  <<Ul(Li(1, "A"), Li(2, "B"), Li(3, "C")), Ul(Li(1, "A"), Li(3, "C"), Li(2, "B")),
    Ul(Li(2, "B"), Li(3, "C"), Li(1, "A")), Ul(Li(3, "C"), Li(2, "B"), Li(1, "A")),
    El("ul", NoKey, <<KEl(Li(2, "B")), KEl(El("Toggle", 4, <<>>))>>),
    El("List", NoKey, <<>>)>>

UnmountInputs ==
  <<Section(<<>>),
    Section(<<KEl(InnerEl)>>),
    Section(<<KEl(El("p", NoKey, <<KEl(InnerEl)>>))>>),
    Section(<<KMap(<<El("Inner", 1, <<>>), El("Inner", 2, <<>>)>>)>>),
    Section(<<KEl(El("Wrapper", NoKey, <<KEl(InnerEl)>>))>>),
    Section(<<KEl(El("Spread", NoKey, <<KEl(InnerEl)>>))>>),
    Section(<<KEl(El("Rows", NoKey, <<>>))>>)>>

\* Lists without keys: <ul><li>A</li><li>B</li></ul>, the same with an item
\* put in front, and groups of mixed kinds.
UnkeyedInputs ==
  <<El("ul", NoKey, <<KEl(Li(NoKey, "A")), KEl(Li(NoKey, "B"))>>),
    El("ul", NoKey, <<KEl(Li(NoKey, "X")), KEl(Li(NoKey, "A")), KEl(Li(NoKey, "B"))>>),
    El("ul", NoKey, <<KEl(El("p", NoKey, <<>>)), KEl(InnerEl)>>),
    El("ul", NoKey, <<KEl(InnerEl), KVal(ArgStr("B")), KEl(InnerEl)>>)>>

\* Lists that mix children with numeric keys and children without key.
MixedInputs ==
  <<El("ul", NoKey, <<KEl(Li(1, "A")), KEl(Li(NoKey, "B"))>>),
    El("ul", NoKey, <<KEl(Li(NoKey, "C")), KEl(Li(1, "A"))>>),
    El("ul", NoKey, <<KEl(Li(2, "D")), KEl(Li(NoKey, "E")), KEl(Li(NoKey, "F"))>>),
    El("ul", NoKey, <<KEl(Li(7, "G")), KEl(Li(NoKey, "H"))>>),
    El("ul", NoKey, <<>>)>>

FormInputs == <<El("Page", NoKey, <<>>), El("Form", NoKey, <<>>)>>

\* Arguments of a direct createVirtualElement(type, props, ...children) call.
ChildChoices ==
  {KEl(El("li", NoKey, <<>>)), KMap(<<El("li", 1, <<>>), El("li", 2, <<>>)>>),
   KVal(ArgStr("")), KVal(ArgStr("a")), KVal(ArgNum(0)), KVal(ArgNum(7)),
   KVal(ArgBool(TRUE)), KVal(ArgBool(FALSE)), KVal(ArgNull), KVal(ArgUndef)}

PropsChoices ==
  {[k |-> "null", key |-> 0], [k |-> "object", key |-> 0], [k |-> "keyNull", key |-> 0],
   [k |-> "key", key |-> 0], [k |-> "key", key |-> 2]}

CreateInputs ==
  {[type |-> "div", props |-> p, kids |-> ks] :
     p \in PropsChoices, ks \in UNION {[1..n -> ChildChoices] : n \in 0..MaxArgs}}

NoInput == [type |-> "", props |-> [k |-> "null", key |-> 0], kids |-> <<>>]

\* Props objects of a <div>: attributes, class, handlers and styles that are
\* set, changed, dropped and falsy.
PatchChoices ==
  {<<>>,
   <<Entry("id", Str("a"))>>,
   <<Entry("id", Str("b")), Entry("title", Str("t"))>>,
   <<Entry("id", Str("a")), Entry("className", Str("box"))>>,
   <<Entry("id", PV("bool", "", 0, <<>>)), Entry("className", Str(""))>>,
   <<Entry("onClick", Fn(1))>>,
   <<Entry("onClick", Fn(2))>>,
   <<Entry("onClick", Str("x"))>>,
   <<Entry("onChange", Fn(1))>>,
   <<Entry("onInput", Fn(1))>>,
   <<Entry("onChange", Fn(1)), Entry("onInput", Fn(2))>>,
   <<Entry("onChange", Fn(2)), Entry("onInput", Fn(1))>>,
   <<Entry("style", Obj(1, <<Entry("color", "red")>>))>>,
   <<Entry("style", Obj(2, <<Entry("color", "red"), Entry("width", "1px")>>))>>,
   <<Entry("style", Obj(3, <<Entry("width", "2px")>>))>>,
   <<Entry("style", Obj(4, <<Entry("color", "blue")>>))>>,
   <<Entry("style", Str("color: red"))>>,
   <<Entry("id", Str("a")), Entry("onClick", Fn(1)),
     Entry("style", Obj(1, <<Entry("color", "red")>>))>>}

\* The new children reorderChildren is given: some of the four children
\* mounted under the parent, in a new order; the others are old children
\* still in the host tree.
ReorderChoices ==
  {order \in UNION {[1..n -> 1..4] : n \in 0..4} :
     \A i, j \in DOMAIN order : order[i] = order[j] => i = j}

NewChildrenOf(vn, ul, order) ==
  [k \in 1..Len(order) |-> flat(vn[ul].children)[order[k]]]

DrawnInputs(a) ==
  CASE a = "create" -> CreateInputs
    [] a = "patch" -> {[prev |-> p, next |-> n] : p \in PatchChoices, n \in PatchChoices}
    [] a = "reorder" -> {[order |-> o] : o \in ReorderChoices}
    [] a = "prim" ->
         {[returns |-> r] :
            r \in {ArgNull, ArgUndef, ArgNum(0), ArgNum(7), ArgStr(""), ArgStr("a"),
                   ArgBool(TRUE), ArgBool(FALSE)}}
    [] OTHER -> {NoInput}

Apps == {"tree", "keyed", "unmount", "form", "create", "unkeyed", "patch", "memo",
         "prim", "reorder", "mixed", "fx", "nested", "gate", "faulty", "callback"}

Inputs(a) ==
  CASE a = "tree" -> TreeInputs
    [] a = "keyed" -> KeyedInputs
    [] a = "form" -> FormInputs
    [] a = "unkeyed" -> UnkeyedInputs
    [] a = "mixed" -> MixedInputs
    [] a = "fx" ->
         <<El("Fx", NoKey, <<>>), El("div", NoKey, <<KEl(El("Fx", NoKey, <<>>))>>)>>
    [] a = "nested" ->
         <<El("Holder", NoKey, <<>>), El("div", NoKey, <<KEl(El("Holder", NoKey, <<>>))>>)>>
    [] a = "gate" ->
         <<El("Gate", NoKey, <<>>), El("div", NoKey, <<KEl(El("Gate", NoKey, <<>>))>>),
           El("Opener", NoKey, <<>>)>>
    [] a = "faulty" ->
         <<El("Faulty", NoKey, <<>>), El("div", NoKey, <<KEl(El("Faulty", NoKey, <<>>))>>),
           El("Counter", NoKey, <<>>)>>
    [] a = "memo" -> <<El("Memo", NoKey, <<>>)>>
    [] a = "callback" -> <<El("Handler", NoKey, <<>>)>>
    [] a = "prim" -> <<El("Prim", NoKey, <<>>)>>
    [] a = "reorder" ->
         <<El("ul", NoKey, <<KMap(<<Li(1, "A"), Li(2, "B"), Li(3, "C"), Li(4, "D")>>)>>)>>
    [] a = "patch" -> <<ElP("div", input.prev, <<>>), ElP("div", input.next, <<>>)>>
    [] OTHER -> UnmountInputs

(***************************************************************************)
(* The nodes under the containers, and the setState closures the           *)
(* application can call: a closure keeps the component node it was made    *)
(* for, whether that node is still mounted or not.                         *)
(***************************************************************************)
RECURSIVE Subtree(_, _), SubtreeAll(_, _)
Subtree(vn, v) ==
  IF v = None THEN {}
  ELSE {v} \cup Subtree(vn, vn[v].child) \cup SubtreeAll(vn, flat(vn[v].children))
SubtreeAll(vn, ids) ==
  IF ids = <<>> THEN {} ELSE Subtree(vn, Head(ids)) \cup SubtreeAll(vn, Tail(ids))

Mounted == UNION {Subtree(virtualNodes, rootNodes[k]) : k \in Containers}

MountedComponents == {v \in Mounted : isFunctionComponent(virtualNodes[v])}

\* The component nodes a setState closure was made for: every component
\* node that has been rendered, mounted or not (the closure keeps its node).
SetterOwners == {v \in DOMAIN virtualNodes : isFunctionComponent(virtualNodes[v])}

IsStateSlot(c, i) ==
  /\ i \in 1..Len(virtualNodes[c].hooks)
  /\ virtualNodes[c].hooks[i].k = "state"

\* The values the application passes to a setter of a component of this type.
SetterValues(type) ==
  CASE type \in {"Toggle", "List"} -> 0..2
    [] type = "Counter" -> 0..1
    [] type \in {"Memo", "Fx", "Handler"} -> 0..2
    [] type \in {"Gate", "Opener"} -> 0..1
    [] OTHER -> {}

\* The components whose setters the application calls with prev => prev + 1.
UpdaterTypes == {"Counter", "App", "Form", "Page"}

(***************************************************************************)
(* State machine                                                           *)
(***************************************************************************)
World ==
  [vn |-> virtualNodes, dom |-> hostNodes, cur |-> currentRenderingComponent,
   hidx |-> hookIndexInEachComponent, queue |-> pendingEffectsQueue,
   roots |-> rootNodes, trace |-> trace, err |-> FALSE, ret |-> None,
   fresh |-> fresh, listeners |-> eventListeners, currentListeners |-> <<>>]

Commit(w) ==
  /\ virtualNodes' = w.vn
  /\ hostNodes' = w.dom
  /\ currentRenderingComponent' = w.cur
  /\ hookIndexInEachComponent' = w.hidx
  /\ pendingEffectsQueue' = w.queue
  /\ rootNodes' = w.roots
  /\ eventListeners' = w.listeners
  /\ trace' = w.trace
  /\ thrown' = w.err
  /\ fresh' = w.fresh
  /\ steps' = steps + 1
  /\ UNCHANGED <<app, input>>

ContainerNode ==
  [kind |-> "element", tag |-> "container", text |-> "", parent |-> None, kids |-> <<>>,
   attributes |-> <<>>, style |-> <<>>, listeners |-> <<>>]

Init ==
  /\ virtualNodes = <<>>
  /\ hostNodes = [k \in Containers |-> ContainerNode]
  /\ currentRenderingComponent = None
  /\ hookIndexInEachComponent = 0
  /\ pendingEffectsQueue = <<>>
  /\ rootNodes = [k \in Containers |-> None]
  /\ eventListeners = <<>>
  /\ trace = <<>>
  /\ thrown = FALSE
  /\ fresh = 0
  /\ app \in Apps
  /\ input \in DrawnInputs(app)
  /\ steps = 0

\* freeact.render(<tree/>, container)
Render ==
  /\ steps < MaxSteps
  /\ \E k \in 1..Len(Inputs(app)), container \in Containers :
       LET w0 == Build(World, Inputs(app)[k])
       IN Commit(render(Log(w0, "render", k, container, w0.ret), w0.ret, container))

\* setCount(prev => prev + 1)
SetStateUpdater ==
  /\ steps < MaxSteps
  /\ \E c \in SetterOwners, i \in 1..3 :
       /\ IsStateSlot(c, i)
       /\ virtualNodes[c].type \in UpdaterTypes
       /\ virtualNodes[c].hooks[i].v < MaxCount
       /\ Commit(setState(Log(World, "update", c, i, 0), c, i, TRUE, 0))

\* setMode(value)
SetStateValue ==
  /\ steps < MaxSteps
  /\ \E c \in SetterOwners, i \in 1..3 :
       /\ IsStateSlot(c, i)
       /\ \E value \in SetterValues(virtualNodes[c].type) :
            Commit(setState(Log(World, "set", c, i, value), c, i, FALSE, value))

\* The application calls a hook from outside every component function:
\* freeact.useState(0), freeact.useEffect(() => {}, []), freeact.useMemo(() => 1, []),
\* freeact.useCallback(() => {}, []).  The class of src/unnamed/part_001 has
\* no method useCallback: that call is a TypeError (calling undefined), which
\* runs no statement of the class.  The application of Handler is the one
\* rendered with the class that has useCallback.
HookNames == <<"useState", "useEffect", "useMemo", "useCallback">>

callHookOutside(w, h) ==
  CASE HookNames[h] = "useState" -> useState(w, StateHook(0))
    [] HookNames[h] = "useEffect" -> useEffect(w, TRUE, <<>>)
    [] HookNames[h] = "useCallback" ->
         IF app = "callback" THEN useCallback(w, TRUE, <<>>) ELSE Throw(w, "TypeError")
    [] OTHER -> useMemo(w, TRUE, <<>>)

HookOutsideComponent ==
  /\ steps < MaxSteps
  /\ \E h \in 1..Len(HookNames) :
       Commit(callHookOutside(Log(World, "hook", h, 0, 0), h))

\* freeact.createVirtualElement(type, props, ...children), the children that
\* are nodes being created first.
CreateVirtualElement ==
  /\ steps < MaxSteps
  /\ app = "create"
  /\ LET w1 == BuildKids(World, input.kids, <<>>)
     IN Commit(createVirtualElement(w1, input.type, KeyOrNull(input.props), <<>>, w1.ret))

\* updateVirtualNodeProps(el, prevProps, nextProps) on the <div> mounted with
\* prevProps under a container.
PatchProps ==
  /\ steps < MaxSteps
  /\ app = "patch"
  /\ \E c \in Containers :
       /\ rootNodes[c] # None
       /\ LET el == virtualNodes[rootNodes[c]].realNode
          IN Commit(updateVirtualNodeProps(Log(World, "patch", el, 0, 0), el,
                                           input.prev, input.next))

\* reorderChildren(parentRealNode, newVirtualChildren) on the <ul> mounted
\* under a container, for the new children drawn.
ReorderChildren ==
  /\ steps < MaxSteps
  /\ app = "reorder"
  /\ \E c \in Containers :
       /\ rootNodes[c] # None
       /\ LET ul == rootNodes[c]
          IN Commit(reorderChildren(Log(World, "reorder", ul, 0, 0),
                                    virtualNodes[ul].realNode,
                                    NewChildrenOf(virtualNodes, ul, input.order)))

Next ==
  \/ Render \/ SetStateUpdater \/ SetStateValue \/ HookOutsideComponent
  \/ CreateVirtualElement \/ PatchProps \/ ReorderChildren

Spec == Init /\ [][Next]_vars

\* One application at a time.
InitTree == Init /\ app = "tree"
NextTree == Render \/ SetStateUpdater \/ SetStateValue
SpecTree == InitTree /\ [][NextTree]_vars

InitKeyed == Init /\ app = "keyed"
NextKeyed == Render \/ SetStateValue
SpecKeyed == InitKeyed /\ [][NextKeyed]_vars

InitUnmount == Init /\ app = "unmount"
SpecUnmount == InitUnmount /\ [][Render]_vars

InitForm == Init /\ app = "form"
NextForm == Render \/ SetStateUpdater \/ HookOutsideComponent
SpecForm == InitForm /\ [][NextForm]_vars

InitUnkeyed == Init /\ app = "unkeyed"
SpecUnkeyed == InitUnkeyed /\ [][Render]_vars

InitPatch == Init /\ app = "patch"
SpecPatch == InitPatch /\ [][Render \/ PatchProps]_vars

InitMemo == Init /\ app = "memo"
SpecMemo == InitMemo /\ [][Render \/ SetStateValue]_vars
InitCallback == Init /\ app = "callback"
SpecCallback == InitCallback /\ [][Render \/ SetStateValue \/ HookOutsideComponent]_vars

\* const Prim = () => value, for the values drawn.
InitPrim == Init /\ app = "prim"
SpecPrim == InitPrim /\ [][Render]_vars

InitReorder == Init /\ app = "reorder"
SpecReorder == InitReorder /\ [][Render \/ ReorderChildren]_vars

InitMixed == Init /\ app = "mixed"
SpecMixed == InitMixed /\ [][Render]_vars

InitFx == Init /\ app = "fx"
SpecFx == InitFx /\ [][Render \/ SetStateValue]_vars

\* A component whose rendered child is itself a component with state.
InitNested == Init /\ app = "nested"
SpecNested == InitNested /\ [][Render \/ SetStateValue]_vars

\* A component whose effect calls its setter while the effects are flushed.
InitGate == Init /\ app = "gate"
SpecGate == InitGate /\ [][Render \/ SetStateValue]_vars

\* A component function that throws, and hooks called outside a render.
InitFaulty == Init /\ app = "faulty"
SpecFaulty == InitFaulty /\ [][Render \/ HookOutsideComponent]_vars

InitCreate == Init /\ app = "create"
SpecCreate == InitCreate /\ [][CreateVirtualElement]_vars

(***************************************************************************)
(* Observations used by the properties.                                    *)
(***************************************************************************)
\* The host tree below a host node, as tags and text in sibling order.
RECURSIVE HostView(_, _)
HostView(dom, n) ==
  [tag |-> dom[n].tag, text |-> dom[n].text,
   kids |-> [i \in 1..Len(dom[n].kids) |-> HostView(dom, dom[n].kids[i])]]

\* The host tree a virtual node describes: a component stands for what it
\* rendered, an element for itself with what its children describe.
RECURSIVE Described(_, _)
Described(vn, v) ==
  IF isFunctionComponent(vn[v]) THEN Described(vn, vn[v].child)
  ELSE IF isTextElement(vn[v]) THEN [tag |-> "#text", text |-> vn[v].value, kids |-> <<>>]
  ELSE LET ch == flat(vn[v].children)
       IN [tag |-> vn[v].type, text |-> "",
           kids |-> [i \in 1..Len(ch) |-> Described(vn, ch[i])]]

DescribedUnder(k) ==
  IF rootNodes[k] = None THEN <<>> ELSE <<Described(virtualNodes, rootNodes[k])>>

HostMatchesVirtual ==
  \A k \in Containers : HostView(hostNodes, k).kids = DescribedUnder(k)

\* The public calls are marked in the trace by their first event.
CallOps == {"render", "update", "set", "hook", "patch", "reorder"}
IsCall(e) == e.op \in CallOps

\* Position in the trace of the mark of the last public call (0: no call yet).
LastCallAt(tr) ==
  IF \E i \in 1..Len(tr) : IsCall(tr[i])
  THEN CHOOSE i \in 1..Len(tr) : IsCall(tr[i]) /\ \A j \in (i + 1)..Len(tr) : ~IsCall(tr[j])
  ELSE 0

\* The last public call, and the events it caused, in order.
LastCall == IF LastCallAt(trace) = 0 THEN Ev("none", 0, 0, 0, 0) ELSE trace[LastCallAt(trace)]
Last == SubSeq(trace, LastCallAt(trace) + 1, Len(trace))

CallReturned == steps > 0 /\ ~thrown

Where(tr, op) == {i \in 1..Len(tr) : tr[i].op = op}
Count(tr, op) == Cardinality(Where(tr, op))

\* The events of a list that satisfy a test, as positions.
EventsOf(tr, op, a) == {i \in 1..Len(tr) : tr[i].op = op /\ tr[i].a = a}

HostMutations ==
  {"create", "append", "insert", "remove", "replace", "text", "setAttribute",
   "removeAttribute", "addEventListener", "removeEventListener", "style"}

(***************************************************************************)
(* C1. After any render call or setter call returns, the host tree under   *)
(* each container is the tree the latest virtual output describes, in      *)
(* sibling order -- also when a child changes between text, element and    *)
(* component while siblings follow it.                                     *)
(***************************************************************************)
C1_HostTreeIsVirtualOutput == CallReturned => HostMatchesVirtual

(***************************************************************************)
(* C2. Re-rendering a sibling group whose children all carry distinct keys *)
(* with the same keys, in any order, leaves the same host nodes under the  *)
(* parent, each key on the host node it had, in the new key order; the     *)
(* call creates, removes and replaces no host node and makes at most       *)
(* n - 1 insertBefore calls for n children.  A key stands for the same     *)
(* child (the same type) in both renders.                                  *)
(***************************************************************************)
\* The element a virtual node stands for: a component stands for its output.
RECURSIVE Resolve(_, _)
Resolve(vn, v) ==
  IF v = None THEN None
  ELSE IF isFunctionComponent(vn[v]) THEN Resolve(vn, vn[v].child) ELSE v

GroupOf(vn, v) == IF v = None THEN <<>> ELSE flat(vn[v].children)

AllKeyed(vn, ids) ==
  /\ \A i \in 1..Len(ids) : vn[ids[i]].key # NoKey
  /\ \A i, j \in 1..Len(ids) : i # j => vn[ids[i]].key # vn[ids[j]].key

KeysOf(vn, ids) == {vn[ids[i]].key : i \in 1..Len(ids)}

WithKey(vn, ids, key) == ids[CHOOSE i \in 1..Len(ids) : vn[ids[i]].key = key]

\* Container k's group before and after the step is a keyed permutation.
KeyedPermutation(k, o, n) ==
  LET oc == GroupOf(virtualNodes, o)
      nc == GroupOf(virtualNodes', n)
  IN /\ ~thrown /\ ~thrown'
     /\ o # None /\ n # None /\ n > Len(virtualNodes)
     /\ virtualNodes[rootNodes[k]].type = virtualNodes'[rootNodes'[k]].type
     /\ virtualNodes[o].type = virtualNodes'[n].type
     /\ Len(oc) > 1
     /\ AllKeyed(virtualNodes, oc) /\ AllKeyed(virtualNodes', nc)
     /\ KeysOf(virtualNodes, oc) = KeysOf(virtualNodes', nc)
     /\ \A i \in 1..Len(nc) :
          virtualNodes[WithKey(virtualNodes, oc, virtualNodes'[nc[i]].key)].type
            = virtualNodes'[nc[i]].type

KeyedPermutationKept(k, o, n) ==
  LET oc == GroupOf(virtualNodes, o)
      nc == GroupOf(virtualNodes', n)
      parent == virtualNodes[o].realNode
  IN /\ virtualNodes'[n].realNode = parent
     /\ hostNodes'[parent].kids = [i \in 1..Len(nc) |-> virtualNodes'[nc[i]].realNode]
     /\ \A i \in 1..Len(nc) :
          virtualNodes'[nc[i]].realNode =
            virtualNodes[WithKey(virtualNodes, oc, virtualNodes'[nc[i]].key)].realNode
     /\ {hostNodes'[parent].kids[i] : i \in 1..Len(nc)}
          = {hostNodes[parent].kids[i] : i \in 1..Len(oc)}
     /\ Len(hostNodes') = Len(hostNodes)
     /\ \A i \in 1..Len(Last') : Last'[i].op \notin {"create", "remove", "replace", "append"}
     /\ Count(Last', "insert") <= Len(nc) - 1

KeyedStep ==
  \A k \in Containers :
    KeyedPermutation(k, Resolve(virtualNodes, rootNodes[k]),
                        Resolve(virtualNodes', rootNodes'[k]))
      => KeyedPermutationKept(k, Resolve(virtualNodes, rootNodes[k]),
                                 Resolve(virtualNodes', rootNodes'[k]))

C2_KeyedPermutationKeepsHostNodes == [][KeyedStep]_vars

NoThrowSoFar == Count(trace, "throw") = 0

(***************************************************************************)
(* C3. When a component node is reconciled against an old node of the same *)
(* component (parent re-rendered, or render() called again), the old       *)
(* node's hook slots are carried to the new node: its state slots hold the *)
(* values the last setter calls stored, its memo slots the stored values.  *)
(***************************************************************************)
HooksCarried(old, new) ==
  \A j \in 1..Len(virtualNodes[old].hooks) :
    /\ j <= Len(virtualNodes[new].hooks)
    /\ virtualNodes[old].hooks[j].k \in {"state", "memo"}
         => virtualNodes[new].hooks[j].v = virtualNodes[old].hooks[j].v

C3_HookSlotsCarriedForward ==
  CallReturned => \A i \in Where(Last, "rerender") : HooksCarried(Last[i].b, Last[i].a)

(***************************************************************************)
(* C4. A component with useState(0) whose setter has been called k times   *)
(* with prev => prev + 1 holds and shows the value k and has been          *)
(* re-rendered exactly k times; the j-th updater call was given j - 1, the *)
(* value of the slot at the time of the call.                              *)
(***************************************************************************)
CallsOn(op, c) == {i \in 1..Len(trace) : trace[i].op = op /\ trace[i].a = c /\ trace[i].b = 1}

\* The positions of a set, in increasing order.
RECURSIVE Sorted(_)
Sorted(S) ==
  IF S = {} THEN <<>>
  ELSE LET m == CHOOSE x \in S : \A y \in S : x <= y IN <<m>> \o Sorted(S \ {m})

\* The component holds k and its output shows k; its host node shows k when
\* the last call was its own setter or the render that invoked it (a call on
\* another component node may have written the host node since).
CounterShows(c, k) ==
  /\ virtualNodes[c].hooks[1].v = k
  /\ Described(virtualNodes, c)
       = [tag |-> "p", text |-> "",
          kids |-> <<[tag |-> "#text", text |-> ToStr(k), kids |-> <<>>]>>]
  /\ (\/ LastCall.op = "update" /\ LastCall.a = c
      \/ LastCall.op = "render" /\ c \in Subtree(virtualNodes, LastCall.c))
       => HostView(hostNodes, virtualNodes[c].realNode) = Described(virtualNodes, c)

UpdaterRoundTrip(c) ==
  LET k == Cardinality(CallsOn("update", c))
      stores == Sorted(CallsOn("store", c))
  IN /\ CounterShows(c, k)
     /\ Cardinality(EventsOf(trace, "exec", c)) = 1 + k
     /\ Len(stores) = k
     /\ \A j \in 1..k : trace[stores[j]].d = j - 1 /\ trace[stores[j]].c = j

C4_UpdaterRoundTrip ==
  NoThrowSoFar =>
    \A c \in 1..Len(virtualNodes) :
      (virtualNodes[c].type = "Counter" /\ CallsOn("set", c) = {}) => UpdaterRoundTrip(c)

C4_Witness ==
  /\ CallReturned /\ NoThrowSoFar
  /\ \E c \in Mounted :
       /\ virtualNodes[c].type = "Counter"
       /\ CallsOn("set", c) = {}
       /\ Cardinality(CallsOn("update", c)) = MaxSteps - 1
       /\ virtualNodes[c].hooks[1].v = MaxSteps - 1

(***************************************************************************)
(* C5. A setter call stores the new slot value, then re-renders the        *)
(* captured component's subtree to completion, then flushes the pending    *)
(* effects, all before it returns; every setter call causes one subtree    *)
(* re-render and one flush of its own, none is batched with another.       *)
(***************************************************************************)
FlushAt(tr) == CHOOSE i \in 1..Len(tr) : tr[i].op = "flush"

SetterCallOrder(c, slot) ==
  /\ Len(Last) >= 3
  /\ Last[1].op = "store" /\ Last[1].a = c /\ Last[1].b = slot
  /\ Last[2].op = "exec" /\ Last[2].a = c
  /\ Count(Last, "store") = 1
  /\ Cardinality(EventsOf(Last, "exec", c)) = 1
  /\ Count(Last, "flush") = 1
  /\ \A i \in 1..Len(Last) :
       IF i < FlushAt(Last) THEN Last[i].op # "effect"
       ELSE i > FlushAt(Last) => Last[i].op \in {"effect", "cleanup"}
  /\ Count(Last, "effect") = Count(Last, "schedule")
  /\ pendingEffectsQueue = <<>>

SetterCalls == {i \in 1..Len(trace) : trace[i].op \in {"update", "set"}}

C5_SetterStoresRendersFlushes ==
  /\ (CallReturned /\ LastCall.op \in {"update", "set"})
       => SetterCallOrder(LastCall.a, LastCall.b)
  /\ NoThrowSoFar =>
       /\ Count(trace, "store") = Cardinality(SetterCalls)
       /\ Cardinality({i \in Where(trace, "exec") : i > 1 /\ trace[i - 1].op = "store"})
            = Cardinality(SetterCalls)
       /\ Count(trace, "flush") = Cardinality({i \in 1..Len(trace) : IsCall(trace[i])})

\* Two setter calls in a row, the second of which ran an effect after its render.
C5_Witness ==
  /\ CallReturned /\ NoThrowSoFar
  /\ Cardinality(SetterCalls) = 2
  /\ LastCall.op = "update"
  /\ Count(Last, "effect") = 1
  /\ Count(Last, "text") = 1

\* The calls of the effect callback and of the cleanup of a slot in the last call.
EffectRuns(c, slot) ==
  {i \in 1..Len(Last) : Last[i].op = "effect" /\ Last[i].a = c /\ Last[i].b = slot}
CleanupRuns(c, slot) ==
  {i \in 1..Len(Last) : Last[i].op = "cleanup" /\ Last[i].a = c /\ Last[i].b = slot}

(***************************************************************************)
(* C6. useEffect(fn, [x]) in a mounted component: a render in which x      *)
(* differs from the stored dependency is followed by exactly one call of   *)
(* fn, with the cleanup of fn's previous call immediately before it; a     *)
(* render in which x is unchanged calls neither -- whether the component's *)
(* own setter or a re-render of its parent caused the render.              *)
(* Counter calls useEffect(fn, [count]) in slot 2, count being slot 1.     *)
(***************************************************************************)
RanOnceAfterCleanup(c, cleanup) ==
  /\ Cardinality(EffectRuns(c, 2)) = 1
  /\ \A i \in EffectRuns(c, 2) :
       /\ i > 1
       /\ Last[i - 1].op = "cleanup" /\ Last[i - 1].c = cleanup

\* The cleanup returned by the last call of the slot's effect before position p.
PreviousCleanup(c, p) ==
  LET runs == {i \in 1..(p - 1) :
                 trace[i].op = "effect" /\ trace[i].a = c /\ trace[i].b = 2}
  IN IF runs = {} THEN None ELSE trace[CHOOSE i \in runs : \A j \in runs : j <= i].c

GatedAfterSetter ==
  (LastCall.op \in {"update", "set"} /\ virtualNodes[LastCall.a].type = "Counter")
    => IF Last[1].c # Last[1].d
       THEN RanOnceAfterCleanup(LastCall.a, PreviousCleanup(LastCall.a, LastCallAt(trace)))
       ELSE EffectRuns(LastCall.a, 2) = {} /\ CleanupRuns(LastCall.a, 2) = {}

GatedAfterParent ==
  \A i \in Where(Last, "rerender") :
    virtualNodes[Last[i].a].type = "Counter" =>
      LET new == Last[i].a
          old == Last[i].b
      IN IF virtualNodes[new].hooks[1].v # virtualNodes[old].hooks[2].deps[1]
         THEN RanOnceAfterCleanup(new, virtualNodes[old].hooks[2].cleanup)
         ELSE /\ EffectRuns(new, 2) = {}
              /\ CleanupRuns(new, 2) = {} /\ CleanupRuns(old, 2) = {}

C6_EffectGatedByDependency == CallReturned => GatedAfterSetter /\ GatedAfterParent

(***************************************************************************)
(* C7. The effects scheduled during a render pass (render() or a setter's  *)
(* subtree re-render) run only after every host mutation of the pass, in   *)
(* the order in which they were scheduled; the effect of a component       *)
(* mounted in the pass runs exactly once in it, after its first render.    *)
(***************************************************************************)
Slots(tr, op) ==
  LET es == SelectSeq(tr, LAMBDA e : e.op = op)
  IN [i \in 1..Len(es) |-> <<es[i].a, es[i].b>>]

MountedEffectRanOnce(i) ==
  LET c == Last[i].a
  IN \A j \in 1..Len(virtualNodes[c].hooks) :
       virtualNodes[c].hooks[j].k = "effect" =>
         /\ Cardinality(EffectRuns(c, j)) = 1
         /\ \A r \in EffectRuns(c, j) : r > i
         /\ Cardinality({r \in 1..Len(trace) : trace[r].op = "effect"
                            /\ trace[r].a = c /\ trace[r].b = j}) = 1

C7_EffectsAfterMutationsInOrder ==
  CallReturned =>
    /\ Count(Last, "flush") = 1
    /\ \A i \in 1..Len(Last) :
         /\ Last[i].op = "effect" => i > FlushAt(Last)
         /\ Last[i].op \in HostMutations \cup {"schedule", "exec"} => i < FlushAt(Last)
    /\ Slots(Last, "effect") = Slots(Last, "schedule")
    /\ \A i \in Where(Last, "exec") : Last[i].b = None => MountedEffectRanOnce(i)

\* A pass that mounted components and mutated the host tree ran two effects.
C7_Witness ==
  /\ CallReturned
  /\ Count(Last, "effect") = 2
  /\ Slots(Last, "effect")[1] # Slots(Last, "effect")[2]
  /\ \E i \in Where(Last, "exec") :
       Last[i].b = None /\ EffectRuns(Last[i].a, 1) \cup EffectRuns(Last[i].a, 2) # {}
  /\ \E i \in 1..Len(Last) : Last[i].op \in HostMutations

(***************************************************************************)
(* C8. When a subtree is unmounted (old node present, new node absent),    *)
(* the cleanup of every effect of the old subtree that ran and returned a  *)
(* cleanup is called exactly once: effects of the removed component, of    *)
(* components under host elements, of components from an array of          *)
(* children, and of components that render the children passed to them.    *)
(***************************************************************************)
CleanedOnce(u) ==
  \A j \in 1..Len(virtualNodes[u].hooks) :
    (virtualNodes[u].hooks[j].k = "effect" /\ virtualNodes[u].hooks[j].cleanup # None)
      => Cardinality(CleanupRuns(u, j)) = 1

C8_UnmountCleansEveryEffectOnce ==
  CallReturned =>
    \A i \in Where(Last, "unmount") :
      \A u \in Subtree(virtualNodes, Last[i].a) : CleanedOnce(u)

(***************************************************************************)
(* C9. In the unmount case of reconcile the cleanups of the old subtree    *)
(* are called before the old host node is removed from its parent: when a  *)
(* cleanup runs, the host node of its component is still attached.         *)
(***************************************************************************)
C9_CleanupBeforeDetach ==
  CallReturned =>
    \A i \in Where(Last, "unmount") :
      \A j \in Where(Last, "cleanup") :
        Last[j].a \in Subtree(virtualNodes, Last[i].a)
          => /\ Last[j].d = 1
             /\ \A r \in Where(Last, "remove") :
                  Last[r].b = virtualNodes[Last[i].a].realNode => j < r

(***************************************************************************)
(* C10. useMemo(fn, []) calls fn once in the life of the owning component: *)
(* no re-render of the component, by its own setter or by its parent,      *)
(* calls fn again, and every render returns the stored value.              *)
(* Counter calls useMemo(fn, []) in slot 3.                                *)
(***************************************************************************)
MemoRuns(c) == {i \in 1..Len(Last) : Last[i].op = "memo" /\ Last[i].a = c}

C10_MemoComputedOnce ==
  CallReturned =>
    /\ (LastCall.op \in {"update", "set"} /\ virtualNodes[LastCall.a].type = "Counter")
         => MemoRuns(LastCall.a) = {}
    /\ \A i \in Where(Last, "rerender") :
         virtualNodes[Last[i].a].type = "Counter" =>
           /\ MemoRuns(Last[i].a) = {}
           /\ virtualNodes[Last[i].a].hooks[3].v = virtualNodes[Last[i].b].hooks[3].v

(***************************************************************************)
(* C11. useState, useEffect and useMemo, called while no component is      *)
(* being rendered, each throw a usage error that reaches the caller, and   *)
(* the call leaves the hook slots of every component and the queue of      *)
(* pending effects as they were.                                           *)
(***************************************************************************)
HookCalledOutside ==
  /\ steps' = steps + 1
  /\ LastCall'.op = "hook"
  /\ currentRenderingComponent = None

UsageErrorOnly ==
  /\ thrown'
  /\ Count(Last', "throw") = 1
  /\ virtualNodes' = virtualNodes
  /\ pendingEffectsQueue' = pendingEffectsQueue
  /\ hostNodes' = hostNodes

C11_HookOutsideComponentThrows == [][HookCalledOutside => UsageErrorOnly]_vars

\* Two different hooks of the three have been called outside, beside a
\* mounted component that holds hook slots.
C11_Witness ==
  /\ thrown /\ LastCall.op = "hook"
  /\ Cardinality({trace[i].a : i \in Where(trace, "hook")} \cap 1..3) = 2
  /\ \E c \in MountedComponents : Len(virtualNodes[c].hooks) = 2

(***************************************************************************)
(* C12. Rendering the same virtual tree a second time into the same        *)
(* container performs no host mutation on the second pass: no node is      *)
(* created, removed or moved, no attribute or style property is written,   *)
(* no text content is written, and no listener is removed or added.        *)
(***************************************************************************)
\* The public call before the last one.
PreviousCall ==
  LET before == SubSeq(trace, 1, LastCallAt(trace) - 1)
  IN IF LastCallAt(before) = 0 THEN Ev("none", 0, 0, 0, 0) ELSE before[LastCallAt(before)]

RenderedAgain ==
  /\ CallReturned
  /\ LastCall.op = "render" /\ PreviousCall.op = "render"
  /\ LastCall.a = PreviousCall.a /\ LastCall.b = PreviousCall.b

C12_SameTreeNoHostMutation ==
  RenderedAgain => \A i \in 1..Len(Last) : Last[i].op \notin HostMutations

(***************************************************************************)
(* C13. render(v, c) reconciles v against the virtual node most recently   *)
(* rendered into container c (against nothing on the first render into c)  *)
(* and then records v as the registry entry of c; a render into another    *)
(* container leaves the registry entry and the host subtree of c as they   *)
(* were.                                                                   *)
(***************************************************************************)
\* The host node a virtual node stands on.
HostOf(vn, v) == vn[Resolve(vn, v)].realNode

\* The host nodes below a host node, itself included.
RECURSIVE HostSubtree(_, _)
HostSubtree(dom, n) ==
  {n} \cup UNION {HostSubtree(dom, dom[n].kids[i]) : i \in 1..Len(dom[n].kids)}

RenderStep == steps' = steps + 1 /\ LastCall'.op = "render" /\ ~thrown'

\* What the call did with the previous root old of container c for the new root v.
ReconciledAgainst(old, v, c) ==
  IF old = None
  THEN /\ hostNodes[c].kids = <<>>
       /\ hostNodes'[c].kids = <<HostOf(virtualNodes', v)>>
       /\ HostOf(virtualNodes', v) \notin DOMAIN hostNodes
  ELSE IF virtualNodes[old].type = virtualNodes'[v].type
  THEN IF isFunctionComponent(virtualNodes'[v])
       THEN Last'[1] = Ev("rerender", v, old, 0, 0)
       ELSE hostNodes'[c].kids = <<HostOf(virtualNodes, old)>>
            /\ virtualNodes'[v].realNode = virtualNodes[old].realNode
  ELSE /\ hostNodes'[c].kids = <<HostOf(virtualNodes', v)>>
       /\ HostOf(virtualNodes', v) \notin DOMAIN hostNodes
       /\ HostOf(virtualNodes, old) \notin HostSubtree(hostNodes', c)

OtherContainersKept(c) ==
  \A k \in Containers \ {c} :
    /\ rootNodes'[k] = rootNodes[k]
    /\ HostSubtree(hostNodes', k) = HostSubtree(hostNodes, k)
    /\ \A n \in HostSubtree(hostNodes, k) : hostNodes'[n] = hostNodes[n]

RenderUsesRegistry ==
  LET c == LastCall'.b
      v == LastCall'.c
  IN /\ ReconciledAgainst(rootNodes[c], v, c)
     /\ rootNodes'[c] = v
     /\ OtherContainersKept(c)

C13_RenderUsesRegistryOfContainer == [][RenderStep => RenderUsesRegistry]_vars

\* Both containers hold a tree, and the last render replaced the root of one
\* of them by a root of another type.
C13_Witness ==
  /\ CallReturned /\ LastCall.op = "render" /\ PreviousCall.op = "render"
  /\ \A k \in Containers : rootNodes[k] # None /\ hostNodes[k].kids # <<>>
  /\ Count(Last, "remove") + Count(Last, "replace") > 0

(***************************************************************************)
(* C14. When the old and the new node differ in kind, the host node of the *)
(* new node ends up at the place in the host tree the old host node had:   *)
(* same parent, same preceding and following siblings -- for host tags,    *)
(* text and components, in a full render and in a re-render by a setter.   *)
(***************************************************************************)
Elements(seq) == {seq[i] : i \in 1..Len(seq)}

\* The new node of a kind change stands where the old one stood, the other
\* children of the parent being the same host nodes before and after.
TookThePlace(old, new) ==
  LET was == HostOf(virtualNodes, old)
      now == HostOf(virtualNodes', new)
      parent == hostNodes[was].parent
      before == hostNodes[parent].kids
      after == hostNodes'[parent].kids
  IN Elements(before) \ {was} = Elements(after) \ {now}
       => /\ hostNodes'[now].parent = parent
          /\ after = [i \in 1..Len(before) |-> IF before[i] = was THEN now ELSE before[i]]

KindChangesInPlace ==
  steps' = steps + 1 /\ ~thrown'
    => \A i \in Where(Last', "retype") : TookThePlace(Last'[i].b, Last'[i].a)

C14_KindChangeKeepsPosition == [][KindChangesInPlace]_vars

(***************************************************************************)
(* C15. A lazy initializer passed to useState is invoked exactly once for  *)
(* a component instance, on its first render, and never again when the     *)
(* component re-renders by its own setter or because its parent            *)
(* re-rendered.                                                            *)
(***************************************************************************)
\* The node a component instance was mounted as: a node re-rendered against
\* an old node of the same component continues the instance of the old node.
RECURSIVE InstanceOf(_)
InstanceOf(c) ==
  IF \E i \in Where(trace, "rerender") : trace[i].a = c
  THEN InstanceOf(trace[CHOOSE i \in Where(trace, "rerender") : trace[i].a = c].b)
  ELSE c

InitializerRuns(c, slot) ==
  {i \in Where(trace, "init") : InstanceOf(trace[i].a) = InstanceOf(c) /\ trace[i].b = slot}

C15_LazyInitializerOnce ==
  CallReturned =>
    \A c \in MountedComponents :
      \A slot \in 1..Len(HookCalls(virtualNodes[c].type)) :
        HookCalls(virtualNodes[c].type)[slot].lazy
          => Cardinality(InitializerRuns(c, slot)) = 1

(***************************************************************************)
(* C16. createVirtualElement drops exactly the children that are null,     *)
(* undefined or boolean, keeps all others in their order (0 and the empty  *)
(* string included), wraps every kept child that is not an object as a     *)
(* text node whose value is String(child), sets props.key to the given key *)
(* or to null when none is given, and mutates none of its arguments.       *)
(***************************************************************************)
\* The node the last call returned.
Created == virtualNodes[Len(virtualNodes)]

DroppedKid(k) == k.t = "val" /\ k.a.k \in {"null", "undef", "bool"}
KeptKid(k) == ~DroppedKid(k)

\* String(child) of the primitive children drawn.
TextOf(a) == IF a.k = "str" THEN a.s ELSE IF a.n = 0 THEN "0" ELSE "7"

AsCreated(id, d) == virtualNodes[id] = NewVirtualNode(d.type, d.key, "", <<>>, <<>>)

\* The child of the created node that stands for the kept argument k.
ChildIs(item, k) ==
  CASE k.t = "el" -> ~item.arr /\ Len(item.ids) = 1 /\ AsCreated(item.ids[1], k.d)
    [] k.t = "map" ->
         /\ item.arr /\ Len(item.ids) = Len(k.ds)
         /\ \A j \in 1..Len(k.ds) : AsCreated(item.ids[j], k.ds[j])
    [] OTHER ->
         /\ ~item.arr /\ Len(item.ids) = 1
         /\ virtualNodes[item.ids[1]] =
              NewVirtualNode(TEXT_ELEMENT, NoKey, TextOf(k.a), <<>>, <<>>)

C16_CreateVirtualElementChildren ==
  (app = "create" /\ steps > 0) =>
    LET kept == SelectSeq(input.kids, KeptKid)
    IN /\ ~thrown
       /\ Created.type = input.type
       /\ Created.key = (IF input.props.k = "key" THEN input.props.key ELSE NoKey)
       /\ Len(Created.children) = Len(kept)
       /\ \A i \in 1..Len(kept) : ChildIs(Created.children[i], kept[i])

\* 0 and "" are kept around a dropped false, under a key of 0.
C16_Witness ==
  /\ app = "create" /\ steps > 0
  /\ input.kids = <<KVal(ArgNum(0)), KVal(ArgBool(FALSE)), KVal(ArgStr(""))>>
  /\ input.props = [k |-> "key", key |-> 0]
  /\ Len(Created.children) = 2

(***************************************************************************)
(* C17. In a group without keys the i-th new child is reconciled against   *)
(* the i-th old child; so putting an item in front of n children without   *)
(* keys reuses the n host nodes in place, with the content updated, and    *)
(* mounts exactly one new host node at the end.                            *)
(***************************************************************************)
NoKeys(vn, ids) == \A i \in 1..Len(ids) : vn[ids[i]].key = NoKey

\* The call reconciled the new node against the old one.
ReconciledPair(old, new) ==
  IF virtualNodes[old].type # virtualNodes'[new].type
  THEN \E i \in Where(Last', "retype") : Last'[i].a = new /\ Last'[i].b = old
  ELSE IF isFunctionComponent(virtualNodes'[new])
  THEN \E i \in Where(Last', "rerender") : Last'[i].a = new /\ Last'[i].b = old
  ELSE virtualNodes'[new].realNode = virtualNodes[old].realNode

SameTypes(olds, news) ==
  \A i \in 1..Len(olds) : virtualNodes[olds[i]].type = virtualNodes'[news[i]].type

MatchedByPosition(c, olds, news) ==
  /\ \A i \in 1..Len(news) :
       IF i <= Len(olds) THEN ReconciledPair(olds[i], news[i])
       ELSE HostOf(virtualNodes', news[i]) \notin DOMAIN hostNodes
  /\ \A i \in (Len(news) + 1)..Len(olds) :
       \E j \in Where(Last', "unmount") : Last'[j].a = olds[i]
  /\ (Len(news) = Len(olds) + 1 /\ SameTypes(olds, news)) =>
       LET ul == HostOf(virtualNodes, rootNodes[c])
       IN /\ SubSeq(hostNodes'[ul].kids, 1, Len(olds)) = hostNodes[ul].kids
          /\ Len(hostNodes'[ul].kids) = Len(news)
          /\ hostNodes'[ul].kids[Len(news)] \notin DOMAIN hostNodes
          /\ HostView(hostNodes', c).kids = <<Described(virtualNodes', rootNodes'[c])>>

UnkeyedStep ==
  LET c == LastCall'.b
      olds == GroupOf(virtualNodes, rootNodes[c])
      news == GroupOf(virtualNodes', LastCall'.c)
  IN (/\ RenderStep /\ rootNodes[c] # None
      /\ virtualNodes[rootNodes[c]].type = virtualNodes'[LastCall'.c].type
      /\ NoKeys(virtualNodes, olds) /\ NoKeys(virtualNodes', news))
       => MatchedByPosition(c, olds, news)

C17_UnkeyedMatchedByPosition == [][UnkeyedStep]_vars

\* <li>X</li> was put in front of <li>A</li><li>B</li>: three items, the
\* third on the host node made by the last call.
C17_Witness ==
  /\ CallReturned /\ LastCall.op = "render" /\ LastCall.a = 2
  /\ PreviousCall.op = "render" /\ PreviousCall.a = 1 /\ PreviousCall.b = LastCall.b
  /\ Count(Last, "create") = 2 /\ Count(Last, "append") = 2
  /\ Len(hostNodes[hostNodes[LastCall.b].kids[1]].kids) = 3

(***************************************************************************)
(* C18. The prop patcher is idempotent: applying the patch for the same    *)
(* pair of previous and next props a second time leaves the element with   *)
(* the same attributes, inline style and listeners as applying it once.    *)
(***************************************************************************)
\* What the patcher writes on an element: attributes and inline style by
\* name, listeners in the order they are called.
Patched(dom, el) ==
  [attributes |-> Elements(dom[el].attributes), style |-> Elements(dom[el].style),
   listeners |-> dom[el].listeners]

PatchedAgain ==
  /\ steps' = steps + 1 /\ ~thrown'
  /\ LastCall.op = "patch" /\ LastCall'.op = "patch" /\ LastCall'.a = LastCall.a

C18_PatchIdempotent ==
  [][PatchedAgain => Patched(hostNodes', LastCall.a) = Patched(hostNodes, LastCall.a)]_vars

\* The patch that replaces a handler, an attribute and the style object has
\* been applied twice to the element mounted with the previous props.
C18_Witness ==
  /\ app = "patch" /\ CallReturned
  /\ LastCall.op = "patch" /\ PreviousCall = LastCall
  /\ input.prev = <<Entry("id", Str("a")), Entry("onClick", Fn(1)),
                    Entry("style", Obj(1, <<Entry("color", "red")>>))>>
  /\ input.next = <<Entry("onClick", Fn(2))>>
  /\ hostNodes[LastCall.a].listeners = <<Entry("click", 2)>>

(***************************************************************************)
(* C19. After any sequence of re-renders that change, keep or drop an on*  *)
(* handler, the host node has exactly the latest handler bound: a replaced *)
(* handler is removed before the new one is added, and no earlier handler  *)
(* stays bound.                                                            *)
(***************************************************************************)
\* The listeners the props of an element ask for.
HandlersOf(props) ==
  {Entry(convertToEventName(props[i].name), props[i].value.n) :
     i \in {j \in 1..Len(props) : props[j].name \in EventProps /\ props[j].value.t = "fn"}}

LatestHandlersBound(c) ==
  LET el == virtualNodes[rootNodes[c]].realNode
  IN /\ Elements(hostNodes[el].listeners) = HandlersOf(virtualNodes[rootNodes[c]].attrs)
     /\ Len(hostNodes[el].listeners) = Cardinality(Elements(hostNodes[el].listeners))

\* In the last call, a handler taken off an element is taken off before
\* another handler is put on it.
RemovedBeforeAdded ==
  \A i \in Where(Last, "addEventListener") :
    \A j \in Where(Last, "removeEventListener") :
      (Last[j].a = Last[i].a /\ Last[j].b # Last[i].b)
        => \E k \in 1..(i - 1) : Last[k] = Last[j]

C19_LatestHandlerBound ==
  (app = "patch" /\ CallReturned /\ Count(trace, "patch") = 0)
    => /\ \A c \in Containers : rootNodes[c] # None => LatestHandlersBound(c)
       /\ RemovedBeforeAdded

(***************************************************************************)
(* C20. Across the re-renders a setter triggers, every useState slot keeps *)
(* its value unless its own setter was called: the setter of slot i of a   *)
(* component changes slot i only, and leaves the other slots of that       *)
(* component and all slots of every other component as they were.          *)
(***************************************************************************)
SetterStep == steps' = steps + 1 /\ LastCall'.op \in {"update", "set"} /\ ~thrown'

\* The node that stands for a mounted component after the call: itself, or
\* the node that was re-rendered against it.
Continues(new, old) ==
  \/ new = old /\ ~\E i \in Where(Last', "rerender") : Last'[i].b = old
  \/ \E i \in Where(Last', "rerender") : Last'[i].a = new /\ Last'[i].b = old

OtherSlotsKept ==
  \A old \in MountedComponents : \A new \in DOMAIN virtualNodes' :
    (Continues(new, old) /\ new \in Mounted')
      => \A j \in 1..Len(virtualNodes[old].hooks) :
           (IsStateSlot(old, j) /\ ~(old = LastCall'.a /\ j = LastCall'.b))
             => /\ j <= Len(virtualNodes'[new].hooks)
                /\ virtualNodes'[new].hooks[j] = virtualNodes[old].hooks[j]

C20_SetterChangesOwnSlotOnly == [][SetterStep => OtherSlotsKept]_vars

(***************************************************************************)
(* C21. useMemo(fn, deps) invokes fn exactly once in the first render and  *)
(* exactly once in each later render whose deps differ from the stored     *)
(* deps (another length, or a pair that differs), and not at all           *)
(* otherwise; every render returns the value of the most recent            *)
(* invocation.  Memo calls useMemo(fn, [a, ...(b > 1 ? [0] : [])]) in slot *)
(* 3, a and b being its state slots 1 and 2.                               *)
(***************************************************************************)
\* The node a component executed in the call stood for before the call
\* (None: the component is rendered for the first time).
Before(c) ==
  IF \E i \in Where(Last', "rerender") : Last'[i].a = c
  THEN Last'[CHOOSE i \in Where(Last', "rerender") : Last'[i].a = c].b
  ELSE IF c \in MountedComponents THEN c ELSE None

PassedDeps(c) ==
  <<virtualNodes'[c].hooks[1].v>>
    \o (IF virtualNodes'[c].hooks[2].v > 1 THEN <<0>> ELSE <<>>)

MemoAsClaimed(c) ==
  LET old == Before(c)
      runs == {i \in Where(Last', "memo") : Last'[i].a = c}
      returned == {Last'[i].c : i \in {j \in Where(Last', "useMemo") : Last'[j].a = c}}
  IN IF old = None \/ virtualNodes[old].hooks[3].deps # PassedDeps(c)
     THEN Cardinality(runs) = 1 /\ returned = {Last'[i].c : i \in runs}
     ELSE runs = {} /\ returned = {virtualNodes[old].hooks[3].v}

MemoStep ==
  (steps' = steps + 1 /\ ~thrown')
    => \A i \in Where(Last', "exec") :
         virtualNodes'[Last'[i].a].type = "Memo" => MemoAsClaimed(Last'[i].a)

C21_MemoRecomputedOnDepsChange == [][MemoStep]_vars

(***************************************************************************)
(* C22. When a component function returns a value that is not a virtual    *)
(* node, the component renders a text node: empty text for null and        *)
(* undefined, and the text String(value) for every other primitive, 0, the *)
(* strings and the booleans included.                                      *)
(***************************************************************************)
\* The text the claim gives for a returned value.
TextFor(r) ==
  CASE r.k \in {"null", "undef"} -> ""
    [] r.k = "num" -> (IF r.n = 0 THEN "0" ELSE "7")
    [] r.k = "str" -> r.s
    [] OTHER -> (IF r.b THEN "true" ELSE "false")

C22_PrimitiveRenderedAsText ==
  (app = "prim" /\ CallReturned) =>
    \A c \in Containers :
      rootNodes[c] # None =>
        HostView(hostNodes, c).kids =
          <<[tag |-> "#text", text |-> TextFor(input.returns), kids |-> <<>>]>>

(***************************************************************************)
(* C23. useCallback(callback, deps) returns the callback it returned in    *)
(* the previous render of the component while the deps are unchanged, and  *)
(* the callback just passed when the deps have changed; called while no    *)
(* component is being rendered it throws a usage error.  Handler calls     *)
(* useCallback(() => ..., [a, ...(b > 1 ? [0] : [])]) in slot 4, after the *)
(* hooks of Memo.                                                          *)
(***************************************************************************)
CallbackAsClaimed(c) ==
  LET old == Before(c)
      returned ==
        {Last'[i].c : i \in {j \in Where(Last', "useCallback") : Last'[j].a = c}}
  IN IF old # None /\ virtualNodes[old].hooks[4].deps = PassedDeps(c)
     THEN returned = {virtualNodes[old].hooks[4].v}
     ELSE Cardinality(returned) = 1 /\ \A f \in returned : f > fresh

CallbackStep ==
  /\ (steps' = steps + 1 /\ ~thrown')
       => \A i \in Where(Last', "exec") :
            virtualNodes'[Last'[i].a].type = "Handler" => CallbackAsClaimed(Last'[i].a)
  /\ (HookCalledOutside /\ HookNames[LastCall'.a] = "useCallback") => UsageErrorOnly

C23_CallbackStableWhileDepsUnchanged == [][CallbackStep]_vars

(***************************************************************************)
(* C24. The loop of reorderChildren keeps this invariant: after the        *)
(* iteration for index i the host nodes of the new children i..n-1 are     *)
(* consecutive siblings in the order of the new children.  The host node   *)
(* of the last new child is never moved, and when the loop ends the host   *)
(* nodes of all new children are in the new order.  The iterations n-2..i  *)
(* of the loop are the loop run on the new children i..n-1.                *)
(***************************************************************************)
\* The host nodes of the children from..n stand side by side, in order.
InOrderFrom(dom, vn, parent, children, from) ==
  \A k \in from..(Len(children) - 1) :
    /\ dom[vn[children[k]].realNode].parent = parent
    /\ nextSibling(dom, vn[children[k]].realNode) = vn[children[k + 1]].realNode

LoopInvariant(ul) ==
  LET children == NewChildrenOf(virtualNodes, ul, input.order)
      parent == virtualNodes[ul].realNode
      n == Len(children)
      AfterIteration(i) ==
        reorderChildren(World, parent, SubSeq(children, i, n)).dom
  IN /\ \A i \in 1..(n - 1) :
          \E dom \in {AfterIteration(i)} :
            /\ InOrderFrom(dom, virtualNodes, parent, children, i)
            /\ i = 1 => dom = hostNodes'
     /\ InOrderFrom(hostNodes', virtualNodes', parent, children, 1)
     /\ \A e \in Where(Last', "insert") :
          Last'[e].b # virtualNodes[children[n]].realNode

ReorderStep ==
  (steps' = steps + 1 /\ LastCall'.op = "reorder")
    => ~thrown' /\ LoopInvariant(LastCall'.a)

C24_ReorderLoopInvariant == [][ReorderStep]_vars

\* A reorder of all four children has moved three of them.
C24_Witness ==
  /\ LastCall.op = "reorder" /\ ~thrown
  /\ Count(Last, "insert") = 3
  /\ Len(input.order) = 4

(***************************************************************************)
(* C25. Reconciling a list of children accounts for every old child        *)
(* exactly once: it is reconciled against exactly one new child, or it is  *)
(* left unmatched and reconciled against null after the reorder pass.  No  *)
(* old child stays in the host tree without a new child matching it, also  *)
(* in groups that mix numeric keys and children without key.               *)
(***************************************************************************)
MatchesOf(old, news) == {j \in 1..Len(news) : ReconciledPair(old, news[j])}

UnmountsOf(old) == {j \in Where(Last', "unmount") : Last'[j].a = old}

AccountedOnce(ul, olds, news) ==
  \A i \in 1..Len(olds) :
    /\ Cardinality(MatchesOf(olds[i], news)) + Cardinality(UnmountsOf(olds[i])) = 1
    /\ \A j \in UnmountsOf(olds[i]) : \A k \in Where(Last', "insert") : k < j
    /\ HostOf(virtualNodes, olds[i]) \in HostSubtree(hostNodes', ul)
         => MatchesOf(olds[i], news) # {}

ListStep ==
  LET c == LastCall'.b
      olds == GroupOf(virtualNodes, rootNodes[c])
      news == GroupOf(virtualNodes', LastCall'.c)
  IN (/\ RenderStep /\ rootNodes[c] # None
      /\ virtualNodes[rootNodes[c]].type = virtualNodes'[LastCall'.c].type)
       => AccountedOnce(HostOf(virtualNodes, rootNodes[c]), olds, news)

C25_OldChildrenAccountedOnce == [][ListStep]_vars

(***************************************************************************)
(* C26. When the patcher adds a listener it records it in the side table   *)
(* eventListeners under the host node and the normalized event name, where *)
(* a later patch of the same host node reads it; when the patcher removes  *)
(* a listener it removes the record.  So after a call the table holds, for *)
(* every element, the listener attached under each event name (stated for  *)
(* the names with one listener attached), and nothing else.                *)
(***************************************************************************)
AttachedAlone(el, e) ==
  \A o \in Elements(hostNodes[el].listeners) : o.name = e.name => o = e

ListenersRecorded(el) ==
  /\ \A e \in Elements(hostNodes[el].listeners) :
       AttachedAlone(el, e) => e \in Elements(ListenersOf(eventListeners, el))
  /\ \A r \in Elements(ListenersOf(eventListeners, el)) :
       r \in Elements(hostNodes[el].listeners)

C26_ListenersRecordedInSideTable ==
  CallReturned => \A el \in DOMAIN hostNodes : ListenersRecorded(el)

(***************************************************************************)
(* C27. After the patcher has run for (prev, next) on a host node whose    *)
(* inline style was produced from prev.style, the inline style holds       *)
(* exactly the properties of next.style with their values: what only       *)
(* prev.style has is cleared, what is new or changed is set, and nothing   *)
(* else is left.  A style given as a text asks for its declarations.       *)
(***************************************************************************)
\* The inline style a props object asks for.
StyleOf(props) ==
  LET style == GetProp(props, "style")
  IN IF style.t = "str" THEN Elements(ParseCss(style.s))
     ELSE IF style.t = "obj" THEN Elements(style.decls)
     ELSE {}

StylePatched(el) ==
  Elements(hostNodes[el].style) = StyleOf(input.prev)
    => Elements(hostNodes'[el].style) = StyleOf(input.next)

StyleMounted(c) ==
  rootNodes[c] = None
    => Elements(hostNodes'[HostOf(virtualNodes', rootNodes'[c])].style)
         = StyleOf(virtualNodes'[rootNodes'[c]].attrs)

StyleStep ==
  (steps' = steps + 1 /\ ~thrown')
    => \E call \in {LastCall'} :
         /\ call.op = "patch" => StylePatched(call.a)
         /\ call.op = "render" => StyleMounted(call.b)

SameSlot(e, f) == e.a = f.a /\ e.b = f.b

\* What the callback invoked at position p of the call returned.
ReturnedAt(p) ==
  IF ReturnsCleanup(virtualNodes', Last'[p].a, Last'[p].b) THEN Last'[p].c ELSE None

\* The cleanup the slot held when the execution at position p began.
StoredAt(p) ==
  LET e == Last'[p]
      earlier == {q \in Where(Last', "effect") : q < p /\ SameSlot(Last'[q], e)}
  IN IF earlier # {}
     THEN ReturnedAt(CHOOSE q \in earlier : \A r \in earlier : r <= q)
     ELSE IF e.a \in DOMAIN virtualNodes /\ e.b <= Len(virtualNodes[e.a].hooks)
     THEN virtualNodes[e.a].hooks[e.b].cleanup
     ELSE None

CleanupThenCallbackThenStore(p) ==
  LET e == Last'[p]
      cleanedJustBefore == p > 1 /\ Last'[p - 1].op = "cleanup" /\ SameSlot(Last'[p - 1], e)
  IN /\ IF StoredAt(p) # None
        THEN cleanedJustBefore /\ Last'[p - 1].c = StoredAt(p)
        ELSE ~cleanedJustBefore
     /\ (\A q \in Where(Last', "effect") : SameSlot(Last'[q], e) => q <= p)
          => virtualNodes'[e.a].hooks[e.b].cleanup = ReturnedAt(p)

\* The cleanups invoked by effect executions, as positions in the whole trace.
CleanupsByExecutions(tr) ==
  {p \in Where(tr, "cleanup") :
     p < Len(tr) /\ tr[p + 1].op = "effect" /\ SameSlot(tr[p], tr[p + 1])}

EffectStep ==
  (steps' = steps + 1 /\ ~thrown')
    => /\ \A p \in Where(Last', "effect") : CleanupThenCallbackThenStore(p)
       /\ \A p, q \in CleanupsByExecutions(trace') : trace'[p].c = trace'[q].c => p = q

C28_EffectExecutionOrder == [][EffectStep]_vars

\* An effect has run three times: the second run invoked the cleanup of the
\* first, the third run returned no cleanup and left the slot cleared.
C28_Witness ==
  /\ CallReturned /\ Count(trace, "effect") = 3
  /\ Cardinality(CleanupsByExecutions(trace)) = 2
  /\ \E c \in MountedComponents :
       /\ virtualNodes[c].type = "Fx"
       /\ virtualNodes[c].hooks[2].cleanup = None

(***************************************************************************)
(* C29. When useEffect is called without a deps array, or the stored deps  *)
(* are absent, the deps count as changed: the effect is enqueued again and *)
(* runs once after every render of the component, each time preceded by    *)
(* the cleanup the previous run returned.  Fx calls useEffect without a    *)
(* deps array in slot 2.                                                   *)
(***************************************************************************)
AbsentDepsCountAsChanged ==
  \A has \in BOOLEAN : \A prev, next \in {<<>>, <<0>>, <<1>>, <<0, 1>>} :
    ~areDepsEqual(FALSE, prev, has, next) /\ ~areDepsEqual(has, prev, FALSE, next)

RunsOnceAfterCleanup(c) ==
  LET old == Before(c)
      runs == {p \in Where(Last', "effect") : Last'[p].a = c}
      previous == IF old = None THEN None ELSE virtualNodes[old].hooks[2].cleanup
  IN /\ Cardinality(runs) = 1
     /\ \A p \in runs :
          /\ \A q \in Where(Last', "exec") : Last'[q].a = c => q < p
          /\ previous # None =>
               /\ p > 1 /\ Last'[p - 1].op = "cleanup"
               /\ Last'[p - 1].c = previous

EveryRenderStep ==
  (steps' = steps + 1 /\ ~thrown')
    => /\ AbsentDepsCountAsChanged
       /\ \A i \in Where(Last', "exec") :
            virtualNodes'[Last'[i].a].type = "Fx" => RunsOnceAfterCleanup(Last'[i].a)

C29_EffectWithoutDepsRunsEveryRender == [][EveryRenderStep]_vars

(***************************************************************************)
(* C30. In every component invocation the slot index is 0 when the         *)
(* component function starts and grows by one per hook call, on the first  *)
(* call and the later call paths of useState, useEffect and useMemo: the   *)
(* k-th hook call of the invocation uses slot k-1 of the component (slot k *)
(* counting from 1), and after an invocation with m hook calls the         *)
(* component has exactly m slots.                                          *)
(***************************************************************************)
HookCallOps == {"useState", "useEffect", "useMemo", "useCallback"}

\* The hook calls of the invocation that starts at position p of the events
\* of a call, in order: the hook events up to the next invocation.
HookCallsOfInvocation(events, p) ==
  LET next == {q \in Where(events, "exec") : q > p}
      end == IF next = {} THEN Len(events)
             ELSE (CHOOSE q \in next : \A r \in next : q <= r) - 1
  IN SelectSeq(SubSeq(events, p + 1, end), LAMBDA e : e.op \in HookCallOps)

SlotsInCallOrder(c, calls) ==
  /\ Len(calls) = Len(HookCalls(virtualNodes'[c].type))
  /\ \A k \in 1..Len(calls) : calls[k].a = c /\ calls[k].b = k
  /\ Len(virtualNodes'[c].hooks) = Len(calls)

InvocationStep ==
  (steps' = steps + 1 /\ ~thrown')
    => /\ \E events \in {Last'} :
            \A p \in Where(events, "exec") :
              \E calls \in {HookCallsOfInvocation(events, p)} :
                SlotsInCallOrder(events[p].a, calls)
       /\ currentRenderingComponent' = None

C30_SlotIndexCountsHookCalls == [][InvocationStep]_vars

\* A setter has re-rendered a Counter whose slots existed: its three hooks
\* took the later-call paths, with the effect and the memo left as they were.
C30_Witness ==
  /\ CallReturned /\ LastCall.op \in {"set", "update"}
  /\ virtualNodes[LastCall.a].type = "Counter"
  /\ Count(Last, "useState") = 1 /\ Count(Last, "useEffect") = 1
  /\ Count(Last, "useMemo") = 1
  /\ Count(Last, "schedule") = 0 /\ Count(Last, "memo") = 0

(***************************************************************************)
(* C31. A setter call invokes again only the component captured when the   *)
(* hook was called and the components of its rendered subtree: no          *)
(* ancestor and no sibling component function is invoked, and the hook     *)
(* slots and the host nodes outside that subtree are unchanged (a host     *)
(* node outside keeps its content, its parent and its children outside     *)
(* the subtree in their order).                                            *)
(***************************************************************************)
\* The host nodes that belong to component c before or after the call.
HostNodesOf(c) ==
  HostSubtree(hostNodes, HostOf(virtualNodes, c))
    \cup HostSubtree(hostNodes', HostOf(virtualNodes', c))
    \cup (DOMAIN hostNodes' \ DOMAIN hostNodes)

OutsideKept(c, n, inside) ==
  /\ [hostNodes'[n] EXCEPT !.kids = <<>>] = [hostNodes[n] EXCEPT !.kids = <<>>]
  /\ SelectSeq(hostNodes'[n].kids, LAMBDA k : k \notin inside)
       = SelectSeq(hostNodes[n].kids, LAMBDA k : k \notin inside)

OnlySubtreeRendered(c) ==
  /\ \E i \in Where(Last', "exec") : Last'[i].a = c
  /\ \A i \in Where(Last', "exec") : Last'[i].a \in Subtree(virtualNodes', c)
  /\ \A o \in MountedComponents \ Subtree(virtualNodes, c) :
       virtualNodes'[o].hooks = virtualNodes[o].hooks
  /\ \E inside \in {HostNodesOf(c)} :
       \A n \in DOMAIN hostNodes \ inside : OutsideKept(c, n, inside)

C31_SetterRendersOwnSubtreeOnly ==
  [][SetterStep => \E call \in {LastCall'} : OnlySubtreeRendered(call.a)]_vars

\* A setter of Toggle, mounted in App beside Counter and Inner, has rendered
\* Toggle with an Inner below it.
C31_Witness ==
  /\ CallReturned /\ LastCall.op = "set"
  /\ virtualNodes[LastCall.a].type = "Toggle"
  /\ Count(Last, "exec") = 2
  /\ \E a \in MountedComponents : virtualNodes[a].type = "App"

(***************************************************************************)
(* C32. When the old and the new node differ in kind, the effect cleanups  *)
(* of the whole old subtree are invoked, each exactly once, before the new *)
(* node is mounted, whatever the kinds of the old and the new node.        *)
(***************************************************************************)
\* Where the call starts to mount the node: its component function is
\* invoked, or its host node is created.
MountsAt(new) ==
  {p \in 1..Len(Last) :
     \/ Last[p].op = "exec" /\ Last[p].a = new
     \/ Last[p].op = "create" /\ Last[p].a = virtualNodes[new].realNode}

CleanedOnceBefore(u, at, new) ==
  \A j \in 1..Len(virtualNodes[u].hooks) :
    (virtualNodes[u].hooks[j].k = "effect" /\ virtualNodes[u].hooks[j].cleanup # None)
      => /\ Cardinality(CleanupRuns(u, j)) = 1
         /\ \A r \in CleanupRuns(u, j) : at < r /\ \A p \in MountsAt(new) : r < p

C32_KindChangeCleansOldSubtree ==
  CallReturned =>
    \A i \in Where(Last, "retype") :
      /\ MountsAt(Last[i].a) # {}
      /\ \A u \in Subtree(virtualNodes, Last[i].b) : CleanedOnceBefore(u, i, Last[i].a)

(***************************************************************************)
(* C33. Within one render pass component functions are invoked depth-first *)
(* in declared order: a component is invoked before every component of its *)
(* rendered subtree, and for two sibling children the whole subtree of the *)
(* left one is reconciled before the right one starts; unmounts of         *)
(* unmatched old children happen after all new children of that parent are *)
(* reconciled and reordered.                                               *)
(***************************************************************************)
\* Where the call reconciled, invoked or created a node of a set.
Reconciles(nodes) ==
  {p \in 1..Len(Last) :
     \/ Last[p].op \in {"exec", "rerender", "retype"} /\ Last[p].a \in nodes
     \/ Last[p].op = "create" /\ \E v \in nodes : virtualNodes[v].realNode = Last[p].a}

ParentBeforeSubtree ==
  \A i \in Where(Last, "exec") :
    \A j \in Reconciles(Subtree(virtualNodes, virtualNodes[Last[i].a].child)) : i < j

LeftBeforeRight ==
  \A parent \in Mounted :
    \E children \in {GroupOf(virtualNodes, parent)} :
      \A l, r \in 1..Len(children) :
        l < r => \A i \in Reconciles(Subtree(virtualNodes, children[l])) :
                   \A j \in Reconciles(Subtree(virtualNodes, children[r])) : i < j

\* The mounted element that was reconciled against the parent of an old child.
NewParentsOf(old) ==
  {v \in Mounted : /\ ~isFunctionComponent(virtualNodes[v])
                   /\ virtualNodes[v].realNode = virtualNodes[old].parentRealNode}

UnmountsLast ==
  \A u \in Where(Last, "unmount") :
    \A parent \in NewParentsOf(Last[u].a) :
      /\ \A j \in Reconciles(SubtreeAll(virtualNodes, GroupOf(virtualNodes, parent))) : j < u
      /\ \A j \in Where(Last, "insert") :
           Last[j].a = virtualNodes[parent].realNode => j < u

C33_DepthFirstInDeclaredOrder ==
  (CallReturned /\ LastCall.op \in {"render", "update", "set"})
    => ParentBeforeSubtree /\ LeftBeforeRight /\ UnmountsLast

\* A call that invoked a component inside an invoked component, invoked the
\* components of two sibling subtrees, and unmounted an unmatched old child
\* of a parent whose new children it reconciled.
C33_Witness ==
  /\ CallReturned /\ LastCall.op = "render"
  /\ \E i, j \in Where(Last, "exec") :
       Last[j].a \in Subtree(virtualNodes, virtualNodes[Last[i].a].child)
  /\ \E parent \in Mounted :
       \E children \in {GroupOf(virtualNodes, parent)} :
         \E l, r \in 1..Len(children) :
           /\ l < r
           /\ \E i \in Reconciles(Subtree(virtualNodes, children[l])) : Last[i].op = "exec"
           /\ \E i \in Reconciles(Subtree(virtualNodes, children[r])) : Last[i].op = "exec"
  /\ \E u \in Where(Last, "unmount") :
       \E parent \in NewParentsOf(Last[u].a) :
         \E j \in Reconciles(SubtreeAll(virtualNodes, GroupOf(virtualNodes, parent))) :
           Last[j].op = "exec"

(***************************************************************************)
(* C34. After every render pass and every setter-triggered re-render, each *)
(* mounted component node's realNode equals the realNode of its rendered   *)
(* child, and that host node is attached to the live tree; this holds for  *)
(* each ancestor component whose rendered child is itself a component that *)
(* re-rendered through its own setter and replaced its host node.          *)
(***************************************************************************)
HostRefOfRenderedChild(c) ==
  virtualNodes[c].child # None
    => /\ virtualNodes[c].realNode = virtualNodes[virtualNodes[c].child].realNode
       /\ IsAttached(hostNodes, virtualNodes[c].realNode)

C34_ComponentHostRefIsChildHostRef ==
  (CallReturned /\ LastCall.op \in {"render", "update", "set"})
    => \A c \in MountedComponents : HostRefOfRenderedChild(c)

(***************************************************************************)
(* C35. No effect callback is invoked for a component after that component *)
(* has been unmounted: when an effect that runs during a flush calls a     *)
(* setter whose re-render unmounts a component that still has an effect    *)
(* waiting in the pending queue, that waiting effect is not executed.      *)
(***************************************************************************)
C35_NoEffectAfterUnmount ==
  CallReturned =>
    \A u \in Where(Last, "unmount") :
      \A e \in Where(Last, "effect") :
        Last[e].a \in Subtree(virtualNodes, Last[u].a) => e < u

(***************************************************************************)
(* C37. The pending-effect queue is empty whenever render() or a setter    *)
(* has returned normally: every effect enqueued during a pass, and every   *)
(* effect enqueued by a re-render that an effect of that pass triggered,   *)
(* has been executed exactly once before the outermost call returns.       *)
(***************************************************************************)
Schedules(c, slot) ==
  {i \in 1..Len(Last) : Last[i].op = "schedule" /\ Last[i].a = c /\ Last[i].b = slot}

\* Every scheduling of the slot's effect is followed by one run of its own.
EachScheduleRunOnce(c, slot) ==
  /\ Cardinality(EffectRuns(c, slot)) = Cardinality(Schedules(c, slot))
  /\ \A e \in EffectRuns(c, slot) :
       Cardinality({r \in EffectRuns(c, slot) : r <= e})
         <= Cardinality({i \in Schedules(c, slot) : i < e})

C37_QueueEmptyWhenCallReturns ==
  (CallReturned /\ LastCall.op \in {"render", "update", "set"})
    => /\ pendingEffectsQueue = <<>>
       /\ \A c \in DOMAIN virtualNodes : \A slot \in 1..Len(virtualNodes[c].hooks) :
            EachScheduleRunOnce(c, slot)

\* A call whose flush ran an effect that called a setter, the re-render
\* scheduling the effect of a component it mounted.
C37_Witness ==
  /\ CallReturned /\ LastCall.op = "render"
  /\ pendingEffectsQueue = <<>>
  /\ \E e \in Where(Last, "effect") :
       /\ \E i \in Where(Last, "store") : i = e + 1
       /\ \E i \in Where(Last, "schedule") :
            /\ e < i
            /\ \E r \in EffectRuns(Last[i].a, Last[i].b) : i < r

(***************************************************************************)
(* C36. The currently-rendering-component reference is null whenever no    *)
(* component function is executing, including after a render pass was      *)
(* aborted by an exception thrown from a component function: a hook called *)
(* outside a render after such an aborted pass still throws the usage      *)
(* error and writes no slot.                                               *)
(***************************************************************************)
HookCallRejected ==
  (steps' = steps + 1 /\ LastCall'.op = "hook")
    => /\ thrown'
       /\ virtualNodes' = virtualNodes
       /\ pendingEffectsQueue' = pendingEffectsQueue

C36_NoRenderingComponentBetweenCalls ==
  [][currentRenderingComponent' = None /\ HookCallRejected]_vars

(***************************************************************************)
(* C38. Mounting a host element with props P leaves the same attributes,   *)
(* inline style and listeners on the host node as patching an empty        *)
(* element from {} to P: the mount path sets no attribute that the patcher *)
(* would not set (in particular none named after className, style or an    *)
(* on* handler prop), so a later removal of such a prop leaves no          *)
(* attribute behind.  The attribute named style is the text of the inline  *)
(* style on the host, so removing a style prop leaves it empty, mounted or *)
(* patched; the removal is checked for className and the on* props.        *)
(***************************************************************************)
\* An empty element of the same tag, patched from {} to the props.
PatchedFromEmpty(tag, props) ==
  LET w == createHostNode(World, "element", tag, "")
  IN updateVirtualNodeProps(w, w.ret, <<>>, props).dom[w.ret]

MountedAsPatched(v) ==
  \E mounted \in {hostNodes'[virtualNodes'[v].realNode]} :
    \E patched \in {PatchedFromEmpty(virtualNodes'[v].type, virtualNodes'[v].attrs)} :
      /\ Elements(mounted.attributes) = Elements(patched.attributes)
      /\ mounted.style = patched.style
      /\ mounted.listeners = patched.listeners

\* No attribute is left under the name of a className or on* prop that the
\* patch has removed.
RemovedPropsLeaveNoAttribute(el) ==
  \A i \in 1..Len(input.prev) :
    (/\ input.prev[i].name \in {"className"} \cup EventProps
     /\ ~HasEntry(input.next, input.prev[i].name))
      => ~HasEntry(hostNodes'[el].attributes, input.prev[i].name)

MountOrPatchStep ==
  (steps' = steps + 1 /\ ~thrown')
    => \E call \in {LastCall'} :
         /\ (call.op = "render" /\ rootNodes[call.b] = None) => MountedAsPatched(call.c)
         /\ call.op = "patch" => RemovedPropsLeaveNoAttribute(call.a)

C38_MountSetsWhatPatchSets == [][MountOrPatchStep]_vars

====
